---- MODULE Spec2Model ----
(***************************************************************************)
(* Gateway / streaming-proxy core of the RAG server (src/server-rag/api).  *)
(*                                                                         *)
(* One client request is in flight at a time.  A handler action models a   *)
(* whole FastAPI handler up to the point where it returns a body, raises   *)
(* an HTTPException or returns a StreamingResponse; the generator actions  *)
(* then resume the returned async generator, one resumption per step.      *)
(* Strings that the code inspects (answers, fragments) are sequences of    *)
(* one-character strings; opaque strings are TLA+ strings.                 *)
(***************************************************************************)
EXTENDS Integers, Sequences, FiniteSets, TLC

VARIABLES
    handlers,       \* module name -> the module-global chat_handler
    pc,             \* "idle" | "streaming" | "done"
    req,            \* the request being served
    question,       \* the question the handler extracted from the request
    route,          \* "none" | "rag" | "proxy"
    served,         \* "none" | "json" | "stream" | "http_error"
    status,         \* HTTP status of the response (0: none yet)
    resp,           \* body of a non-streaming response
    out,            \* chunks written to the client by the StreamingResponse
    gen,            \* the async generator behind the StreamingResponse
    pipe,           \* what the augmented pipeline did when it was called
    upstream,       \* what the upstream service was asked and did
    pipelineCalls,  \* calls of rag_chain.invoke/stream/astream for this request
    upstreamCalls,  \* HTTP requests sent upstream for this request
    heap,           \* the model descriptor dicts, by object identity
    model_service,  \* the ModelService instance of api/services.py
    caller,         \* what a caller of model_service holds: a list, a result
    tasks,          \* the coroutines of the requests in flight on the event loop
    thread,         \* the task whose code holds the event-loop thread, 0 for none
    auth_service,   \* api/auth.py: the global AuthService
    current_user,   \* what the last run of the authentication dependency gave
    db,             \* server-logging: the committed content of the SQLite file
    saves,          \* server-logging: the save_conversation calls in progress
    uuids           \* server-logging: how many conversation ids were drawn

\* the state of the chat, generate and health handlers
gateway == <<handlers, pc, req, question, route, served, status, resp, out, gen,
             pipe, upstream, pipelineCalls, upstreamCalls>>
\* the state of the model registry
registry == <<heap, model_service, caller>>
\* the state of the event loop
loop == <<tasks, thread>>
\* what the handlers of the gateway leave alone
\* the state of the authentication service
auth == <<auth_service, current_user>>
\* the state of the logging store
store == <<db, saves, uuids>>
aside == <<registry, loop, auth, store>>

vars == <<gateway, registry, loop, auth, store>>

----------------------------------------------------------------------------
\* Bounds of the model.

MaxMsgs == 2          \* longest messages list of a request
MaxAnswerLen == 5     \* longest answer of rag_chain.invoke, in characters
MaxFrags == 3         \* most fragments rag_chain.stream/astream produces
MaxChunks == 2        \* most content chunks one streamed response carries
MaxModels == 3        \* most descriptors in the registry or in a caller's list
MaxUpChunks == 2      \* most chunks / JSON objects in an upstream body

----------------------------------------------------------------------------
\* Strings.

Alphabet == {"a", " "}
Whitespace == {" ", "\n", "\t"}

SeqsUpTo(S, n) == UNION {[1..k -> S] : k \in 0..n}

RECURSIVE Flatten(_)
Flatten(ss) == IF ss = <<>> THEN <<>> ELSE Head(ss) \o Flatten(Tail(ss))

\* str.split() with no argument: the maximal runs of non-whitespace.
RECURSIVE SplitAcc(_, _, _)
SplitAcc(s, cur, acc) ==
    IF s = <<>>
    THEN IF cur = <<>> THEN acc ELSE Append(acc, cur)
    ELSE IF Head(s) \in Whitespace
         THEN SplitAcc(Tail(s), <<>>, IF cur = <<>> THEN acc ELSE Append(acc, cur))
         ELSE SplitAcc(Tail(s), Append(cur, Head(s)), acc)

split(s) == SplitAcc(s, <<>>, <<>>)

\* " ".join(words)
RECURSIVE join(_)
join(words) ==
    IF words = <<>> THEN <<>>
    ELSE IF Len(words) = 1 THEN Head(words)
    ELSE Head(words) \o <<" ">> \o join(Tail(words))

\* words[i:i+n] with a 0-based i
slice(words, i, n) ==
    SubSeq(words, i + 1, IF i + n < Len(words) THEN i + n ELSE Len(words))

----------------------------------------------------------------------------
\* Configuration and inputs.

RAG_MODEL_NAME == "rag-cheeseade:latest"
LLM_SERVER_URL == "http://llm-server"

\* The augmented name, a case variant of it, a prefix of it, an unknown name.
ModelNames ==
    {RAG_MODEL_NAME, "RAG-CHEESEADE:LATEST", "rag-cheeseade", "no-such-model"}

Roles == {"system", "user", "assistant"}

\* The content of the i-th message of a request: all contents are distinct,
\* so the message a handler took its question from can be told.
Ordinals == <<"1", "2", "3", "4">>
ContentOf(i) == IF i <= Len(Ordinals) THEN <<Ordinals[i]>> ELSE <<"n">>

MessagesOf(roles) ==
    [i \in 1..Len(roles) |-> [role |-> roles[i], content |-> ContentOf(i)]]

MessageLists == {MessagesOf(roles) : roles \in SeqsUpTo(Roles, MaxMsgs)}

Answers == SeqsUpTo(Alphabet, MaxAnswerLen)
Fragments == {<<>>} \cup {<<c>> : c \in Alphabet}

\* What the pipeline does in one call: the fragments it produces (one, the
\* whole answer, for invoke) and whether it then raises.
InvokeOutcomes ==
    {[frags |-> <<a>>, raises |-> FALSE] : a \in Answers}
        \cup {[frags |-> <<>>, raises |-> TRUE]}

StreamOutcomes ==
    {[frags |-> f, raises |-> r] : f \in SeqsUpTo(Fragments, MaxFrags), r \in BOOLEAN}

PipelineError == <<"boom">>     \* str(e) of the pipeline's exception

NoPipe == [mode |-> "none", attrs |-> {}, frags |-> <<>>, raises |-> FALSE]

Called(mode, attrs, o) ==
    [mode |-> mode, attrs |-> attrs, frags |-> o.frags, raises |-> o.raises]

\* The answer the pipeline produced in a call that did not raise.
AnswerOf(p) == Flatten(p.frags)

\* The JSON object an upstream 200 answer carries: what the upstream's
\* OpenAI-compatible endpoint sends, the same without its extra key, or an
\* object of the upstream's native dialect.
UpstreamBodies == {"chat.completion+", "chat.completion", "ollama"}

\* What the upstream service does with one HTTP request: it times out, refuses
\* the connection, or answers with a status and a body of `objs` JSON objects
\* (one object when asked for a single response, one line per chunk when
\* asked to stream; 0 objects is a body that is not JSON).
UpstreamOutcomes(stream) ==
    {[kind |-> "timeout", status |-> 0, objs |-> 0, body |-> "none"],
     [kind |-> "connection_error", status |-> 0, objs |-> 0, body |-> "none"],
     [kind |-> "http", status |-> 500, objs |-> 1, body |-> "ollama"]}
        \cup {[kind |-> "http", status |-> 200, objs |-> n, body |-> "none"] :
                 n \in IF stream THEN 2..MaxUpChunks ELSE {0}}
        \cup {[kind |-> "http", status |-> 200, objs |-> 1, body |-> b] :
                 b \in UpstreamBodies}

\* An upstream body read as a stream: the chunks received and whether the
\* connection then fails.
UpstreamStreams ==
    {[kind |-> "stream", status |-> 200, objs |-> n, body |-> "none", fails |-> f] :
        n \in 0..MaxUpChunks, f \in BOOLEAN}

NoUpstream ==
    [method |-> "none", url |-> "", stream |-> FALSE,
     kind |-> "none", status |-> 0, objs |-> 0, body |-> "none", fails |-> FALSE]

Asked(method, url, stream, o) ==
    [method |-> method, url |-> url, stream |-> stream,
     kind |-> o.kind, status |-> o.status, objs |-> o.objs, body |-> o.body,
     fails |-> IF o.kind = "stream" THEN o.fails ELSE FALSE]

----------------------------------------------------------------------------
\* Wire objects.  `keys` are the top-level keys of the JSON object, `field`
\* the path of its answer field, `content` the value of that field.

Wire(keys, field, content, done, finish_reason) ==
    [framing |-> "json", keys |-> keys, field |-> field, content |-> content,
     done |-> done, finish_reason |-> finish_reason, error |-> <<>>,
     literal |-> "", prompt_eval_count |-> -1, eval_count |-> -1]

NoWire == Wire({}, "none", <<>>, "absent", "absent")

\* json.dumps(obj) + "\n"
ndjson(obj) == [obj EXCEPT !.framing = "ndjson"]
\* f"data: {json.dumps(obj)}\n\n"
sse(obj) == [obj EXCEPT !.framing = "sse"]
\* the line "data: [DONE]\n\n"
DONE_line == [NoWire EXCEPT !.framing = "sse", !.literal = "[DONE]"]

\* an HTTPException rendered as the OpenAI-style error object {"error": ...}
HTTPExceptionBody_openai(detail) ==
    [Wire({"error"}, "error.message", <<>>, "absent", "absent")
       EXCEPT !.error = detail]

\* The body FastAPI sends for a raised HTTPException: {"detail": ...}
HTTPExceptionBody(detail) == [Wire({"detail"}, "none", <<>>, "absent", "absent")
                                EXCEPT !.error = detail]

NoExc == [type |-> "none", status_code |-> 0, detail |-> <<>>]
HTTPException(status_code, detail) ==
    [type |-> "HTTPException", status_code |-> status_code, detail |-> detail]
Raised(type, detail) == [type |-> type, status_code |-> 0, detail |-> detail]

StatusText(code) ==
    CASE code = 400 -> "400: " [] code = 500 -> "500: " [] code = 502 -> "502: "
      [] code = 503 -> "503: " [] OTHER -> "?: "

\* str(e)
str(e) == IF e.type = "HTTPException"
          THEN <<StatusText(e.status_code)>> \o e.detail
          ELSE e.detail

OllamaUsageKeys ==
    {"total_duration", "load_duration", "prompt_eval_count",
     "prompt_eval_duration", "eval_count", "eval_duration"}
OllamaChatKeys == {"model", "created_at", "message", "done"}
OllamaGenerateKeys == {"model", "created_at", "response", "done"}

----------------------------------------------------------------------------
\* api/chat_handler.py: ChatHandler.

NoHandler == [installed |-> FALSE, rag_model_name |-> "", llm_server_url |-> ""]

ChatHandler(rag_model_name, llm_server_url) ==
    [installed |-> TRUE, rag_model_name |-> rag_model_name,
     llm_server_url |-> llm_server_url]

Ok(value) == [ok |-> TRUE, value |-> value, exc |-> NoExc]
Fail(exc) == [ok |-> FALSE, value |-> <<>>, exc |-> exc]

\* a process_with_rag that normalises the whitespace of the answer it returns
process_with_rag_normalised(p) ==
    IF p.raises
    THEN Fail(HTTPException(500, <<"RAG failed: ">> \o PipelineError))
    ELSE Ok(join(split(p.frags[1])))

\* ChatHandler.process_with_rag, given what rag_chain.invoke did.
process_with_rag(p) ==
    IF p.raises
    THEN Fail(HTTPException(500, <<"RAG failed: ">> \o PipelineError))
    ELSE Ok(p.frags[1])

----------------------------------------------------------------------------
\* api/ollama_api.py: response builders.

\* a routing test that ignores letter case
IsRagModel_caseless(model, handler) ==
    LET lower(name) == IF name = "RAG-CHEESEADE:LATEST" THEN "rag-cheeseade:latest"
                       ELSE name
    IN lower(model) = lower(handler.rag_model_name)

\* the routing test of every chat/generate handler
IsRagModel(model, handler) == model = handler.rag_model_name

create_chat_response(model, content) ==
    [Wire(OllamaChatKeys \cup OllamaUsageKeys, "message.content", content,
          "true", "absent")
       EXCEPT !.prompt_eval_count = 10, !.eval_count = Len(split(content))]

create_generate_response(model, content) ==
    [Wire(OllamaGenerateKeys \cup {"context"} \cup OllamaUsageKeys, "response",
          content, "true", "absent")
       EXCEPT !.prompt_eval_count = 10, !.eval_count = Len(split(content))]

\* an error object that does not close the stream
create_chat_error_response_open(model, error) ==
    Wire(OllamaChatKeys, "message.content", <<"Error: ">> \o error, "false", "absent")

create_chat_error_response(model, error) ==
    Wire(OllamaChatKeys, "message.content", <<"Error: ">> \o error, "true", "absent")

create_generate_error_response(model, error) ==
    Wire(OllamaGenerateKeys, "response", <<"Error: ">> \o error, "true", "absent")

----------------------------------------------------------------------------
\* Async generators.  A generator is modelled by the sequence of objects it
\* yields when it is run to its end (`items`) and the exception that then
\* escapes it (`raised`, "" when it returns normally).

Yields(items) == [items |-> items, raised |-> ""]

\* " ".join(words[i:i+n]), plus " " when words remain after the chunk
chunk_of(words, i, n) ==
    join(slice(words, i, n)) \o (IF i + n < Len(words) THEN <<" ">> ELSE <<>>)

chat_chunk_size == 2
generate_chunk_size == 2
fallback_chunk_size == 1

\* a rag_chat_stream whose final object carries zeroed counters
rag_chat_stream_zeroed(p, q, model) ==
    LET r == process_with_rag(p) IN
    IF ~r.ok
    THEN Yields(<<ndjson(create_chat_error_response(model, str(r.exc)))>>)
    ELSE LET response_content == r.value
             words == split(response_content)
             total_chunks == (Len(words) + chat_chunk_size - 1) \div chat_chunk_size
             chunk_response(k) ==
                 ndjson(Wire(OllamaChatKeys, "message.content",
                             chunk_of(words, (k - 1) * chat_chunk_size, chat_chunk_size),
                             "false", "absent"))
             final_response ==
                 ndjson([Wire(OllamaChatKeys \cup OllamaUsageKeys, "message.content",
                              <<>>, "true", "absent")
                           EXCEPT !.prompt_eval_count = 0,
                                  !.eval_count = 0])
         IN Yields([k \in 1..total_chunks |-> chunk_response(k)] \o <<final_response>>)

\* api/ollama_api.py: rag_chat_stream
rag_chat_stream(p, q, model) ==
    LET r == process_with_rag(p) IN
    IF ~r.ok
    THEN Yields(<<ndjson(create_chat_error_response(model, str(r.exc)))>>)
    ELSE LET response_content == r.value
             words == split(response_content)
             total_chunks == (Len(words) + chat_chunk_size - 1) \div chat_chunk_size
             chunk_response(k) ==
                 ndjson(Wire(OllamaChatKeys, "message.content",
                             chunk_of(words, (k - 1) * chat_chunk_size, chat_chunk_size),
                             "false", "absent"))
             final_response ==
                 ndjson([Wire(OllamaChatKeys \cup OllamaUsageKeys, "message.content",
                              <<>>, "true", "absent")
                           EXCEPT !.prompt_eval_count = Len(split(q)),
                                  !.eval_count = Len(split(response_content))])
         IN Yields([k \in 1..total_chunks |-> chunk_response(k)] \o <<final_response>>)

\* api/ollama_api.py: rag_generate_stream
rag_generate_stream(p, prompt, model) ==
    LET r == process_with_rag(p) IN
    IF ~r.ok
    THEN Yields(<<ndjson(create_generate_error_response(model, str(r.exc)))>>)
    ELSE LET response_content == r.value
             words == split(response_content)
             total_chunks ==
                 (Len(words) + generate_chunk_size - 1) \div generate_chunk_size
             chunk_response(k) ==
                 ndjson(Wire(OllamaGenerateKeys, "response",
                             chunk_of(words, (k - 1) * generate_chunk_size,
                                      generate_chunk_size),
                             "false", "absent"))
             final_response ==
                 ndjson([Wire(OllamaGenerateKeys \cup {"context"} \cup OllamaUsageKeys,
                              "response", <<>>, "true", "absent")
                           EXCEPT !.prompt_eval_count = Len(split(prompt)),
                                  !.eval_count = Len(split(response_content))])
         IN Yields([k \in 1..total_chunks |-> chunk_response(k)] \o <<final_response>>)

OpenAIChunkKeys == {"id", "object", "created", "model", "choices"}
OpenAIResponseKeys == {"id", "object", "created", "model", "choices", "usage"}

\* the capability probing of stream_rag_response (hasattr on rag_chain)
probe(attrs) ==
    IF "stream" \in attrs THEN "stream"
    ELSE IF "astream" \in attrs THEN "astream"
    ELSE "invoke"

\* a stream_rag_response without the `if chunk:` tests
stream_rag_response_unfiltered(p, q, model_name) ==
    LET delta_chunk(content) ==
            sse(Wire(OpenAIChunkKeys, "choices[0].delta.content", content,
                     "absent", "null"))
        final_chunk == sse(Wire(OpenAIChunkKeys, "none", <<>>, "absent", "stop"))
        error_response ==
            sse([Wire({"error"}, "error.message", <<>>, "absent", "absent")
                   EXCEPT !.error = PipelineError])
        ending == IF p.raises THEN <<error_response, DONE_line>>
                  ELSE <<final_chunk, DONE_line>>
    IN IF probe(p.attrs) \in {"stream", "astream"}
       THEN LET kept == p.frags
            IN Yields([k \in 1..Len(kept) |-> delta_chunk(kept[k])] \o ending)
       ELSE IF p.raises
            THEN Yields(ending)
            ELSE LET words == split(p.frags[1])
                     n == fallback_chunk_size
                     total == (Len(words) + n - 1) \div n
                 IN Yields([k \in 1..total |->
                               delta_chunk(chunk_of(words, (k - 1) * n, n))]
                           \o ending)

\* api/chat_handler.py: ChatHandler.stream_rag_response
stream_rag_response(p, q, model_name) ==
    LET delta_chunk(content) ==
            sse(Wire(OpenAIChunkKeys, "choices[0].delta.content", content,
                     "absent", "null"))
        final_chunk == sse(Wire(OpenAIChunkKeys, "none", <<>>, "absent", "stop"))
        error_response ==
            sse([Wire({"error"}, "error.message", <<>>, "absent", "absent")
                   EXCEPT !.error = PipelineError])
        ending == IF p.raises THEN <<error_response, DONE_line>>
                  ELSE <<final_chunk, DONE_line>>
    IN IF probe(p.attrs) \in {"stream", "astream"}
       THEN LET kept == SelectSeq(p.frags, LAMBDA chunk : chunk # <<>>)
            IN Yields([k \in 1..Len(kept) |-> delta_chunk(kept[k])] \o ending)
       ELSE IF p.raises
            THEN Yields(ending)
            ELSE LET words == split(p.frags[1])
                     n == fallback_chunk_size
                     total == (Len(words) + n - 1) \div n
                 IN Yields([k \in 1..total |->
                               delta_chunk(chunk_of(words, (k - 1) * n, n))]
                           \o ending)

----------------------------------------------------------------------------
\* api/ollama_api.py: proxies.

\* response.json() of an upstream 200 answer
UpstreamObject(u) ==
    Wire(CASE u.body = "chat.completion+" -> OpenAIResponseKeys \cup {"system_fingerprint"}
           [] u.body = "chat.completion" -> OpenAIResponseKeys
           [] OTHER -> OllamaChatKeys \cup OllamaUsageKeys,
         IF u.body = "ollama" THEN "message.content" ELSE "choices[0].message.content",
         <<"u">>, IF u.body = "ollama" THEN "true" ELSE "absent",
         IF u.body = "ollama" THEN "absent" ELSE "stop")

\* a proxy that answers a timeout and a refused connection with one message
proxy_outcome_generic(u) ==
    IF u.kind \in {"timeout", "connection_error"}
    THEN Fail(Raised("Unavailable", <<"Upstream unavailable">>))
    ELSE IF u.status = 200
    THEN IF u.objs = 1
         THEN Ok(<<"body">>)
         ELSE Fail(Raised("JSONDecodeError", <<"Proxy error: ", "not one JSON value">>))
    ELSE Fail(Raised("status", <<"LLM server error: ", StatusText(u.status)>>))

\* the outcome of requests.post(...) as the proxy functions see it
proxy_outcome(u) ==
    IF u.kind = "timeout" THEN Fail(Raised("Timeout", <<"Request timeout">>))
    ELSE IF u.kind = "connection_error"
    THEN Fail(Raised("ConnectionError", <<"Connection error">>))
    ELSE IF u.status = 200
    THEN IF u.objs = 1
         THEN Ok(<<"body">>)
         ELSE Fail(Raised("JSONDecodeError", <<"Proxy error: ", "not one JSON value">>))
    ELSE Fail(Raised("status", <<"LLM server error: ", StatusText(u.status)>>))

proxy_chat_to_ollama(request, u) ==
    LET r == proxy_outcome(u) IN
    IF r.ok THEN UpstreamObject(u)
    ELSE create_chat_error_response(request.model, r.exc.detail)

proxy_generate_to_ollama(request, u) ==
    LET r == proxy_outcome(u) IN
    IF r.ok THEN UpstreamObject(u)
    ELSE create_generate_error_response(request.model, r.exc.detail)

----------------------------------------------------------------------------
\* api/chat_handler.py: proxies, and the non-streaming chat handler.

\* ChatHandler.proxy_to_llm, given what the upstream did with the one POST
proxy_to_llm(request, u) ==
    IF u.kind \in {"timeout", "connection_error"}
    THEN Fail(HTTPException(502, <<"Failed to connect to LLM server: ", u.kind>>))
    ELSE IF u.status = 200
    THEN IF u.objs = 1
         THEN Ok(UpstreamObject(u))
         ELSE Fail(HTTPException(502, <<"Failed to connect to LLM server: ",
                                        "not one JSON value">>))
    ELSE Fail(HTTPException(u.status, <<"LLM server error: ", "body">>))

\* a chunk of response.content.iter_chunked(1024), relayed as it is
raw_chunk(k) ==
    [Wire({}, "raw", <<"u">> \o ContentOf(k), "absent", "absent")
       EXCEPT !.framing = "raw"]

\* ChatHandler.proxy_stream_to_llm
proxy_stream_to_llm(request, u) ==
    LET error_chunk == sse([Wire({"error"}, "error.message", <<>>, "absent", "absent")
                              EXCEPT !.error = <<"Proxy error: ", "connection">>])
    IN Yields([k \in 1..u.objs |-> raw_chunk(k)]
              \o (IF u.fails THEN <<error_chunk>> ELSE <<>>))

ChatResponse(model, content) ==
    Wire(OpenAIResponseKeys, "choices[0].message.content", content, "absent", "stop")

\* response_model=ChatResponse on the route: FastAPI validates what the
\* handler returned against the model and serialises the model's fields only
response_model(body) ==
    IF {"id", "created", "model", "choices"} \subseteq body.keys
    THEN Ok([body EXCEPT !.keys = OpenAIResponseKeys])
    ELSE Fail(Raised("ResponseValidationError", <<"field required">>))

\* ChatHandler.handle_chat_request, on the augmented branch
handle_chat_request(request, p) ==
    LET user_question == request.messages[Len(request.messages)].content
        r == process_with_rag(p)
    IN IF r.ok THEN Ok(ChatResponse(request.model, r.value)) ELSE r

----------------------------------------------------------------------------
\* api/routes.py

\* the names bound at module level in api/routes.py (its imports and globals)
routes_globals ==
    {"uuid", "time", "Optional", "APIRouter", "HTTPException", "Header",
     "Depends", "status", "Response", "StreamingResponse", "ModelsResponse",
     "WebUIModelsResponse", "ChatRequest", "ChatResponse", "ChatResponseChoice",
     "ChatResponseMessage", "RetrievalTestRequest", "RetrievalTestResponse",
     "model_service", "get_current_user_optional", "router", "chat_handler"}

NameError(name) == Raised("NameError", <<"name '", name, "' is not defined">>)

\* the Ollama-format dict chat_simple builds for an error
simple_error(model, text) ==
    Wire(OllamaChatKeys, "message.content", text, "true", "absent")

\* a chat_simple that answers in the OpenAI-style envelope
simple_response_openai(model, response_content) ==
    Wire(OpenAIResponseKeys, "choices[0].message.content", response_content,
         "absent", "stop")

\* the Ollama-format dict chat_simple returns for a pipeline answer
simple_response(model, response_content) ==
    [Wire(OllamaChatKeys \cup OllamaUsageKeys, "message.content", response_content,
          "true", "absent")
       EXCEPT !.prompt_eval_count = 10, !.eval_count = 20]

\* chat_simple.ollama_stream_generator over the chunks `inner` that
\* stream_rag_response yields; acc holds what it has yielded so far
RECURSIVE ollama_stream_loop(_, _, _)
ollama_stream_loop(inner, model, acc) ==
    LET final_chunk == sse(Wire(OllamaChatKeys, "message.content", <<>>, "true", "absent"))
    IN IF inner = <<>>
       THEN Yields(Append(acc, final_chunk))
       ELSE LET chunk == Head(inner) IN
            IF chunk.framing # "sse"
            THEN ollama_stream_loop(Tail(inner), model, acc)
            ELSE IF chunk.literal = "[DONE]"
            THEN Yields(Append(acc, final_chunk))
            ELSE IF "json" \notin routes_globals
            THEN [items |-> acc, raised |-> "NameError"]
            ELSE IF "choices" \in chunk.keys /\ chunk.content # <<>>
            THEN ollama_stream_loop(Tail(inner), model,
                     Append(acc, sse(Wire(OllamaChatKeys, "message.content",
                                          chunk.content, "false", "absent"))))
            ELSE ollama_stream_loop(Tail(inner), model, acc)

ollama_stream_generator(p, q, model) ==
    ollama_stream_loop(stream_rag_response(p, q, model).items, model, <<>>)

\* chat_simple.proxy_stream
proxy_stream(model, u) ==
    LET error_chunk == sse(simple_error(model, <<"Error: ", "connection">>))
        relayed == [k \in 1..u.objs |-> raw_chunk(k)]
    IN IF ~u.fails THEN Yields(relayed)
       ELSE IF "json" \in routes_globals THEN Yields(Append(relayed, error_chunk))
       ELSE [items |-> relayed, raised |-> "NameError"]

\* the non-streaming proxy branch of chat_simple, once requests.post has
\* been called: the dict it returns
simple_proxy(model, u) ==
    IF u.kind \in {"timeout", "connection_error"}
    THEN simple_error(model, <<"Connection error: ", u.kind>>)
    ELSE IF u.status = 200
    THEN IF u.objs = 1 THEN UpstreamObject(u)
         ELSE simple_error(model, <<"Connection error: ", "not one JSON value">>)
    ELSE simple_error(model, <<"LLM server error: ", StatusText(u.status)>>)

----------------------------------------------------------------------------
\* Requests, responses and the per-request state.

Request(endpoint, model, messages, prompt, stream, form) ==
    [endpoint |-> endpoint, model |-> model, messages |-> messages,
     prompt |-> prompt, stream |-> stream, form |-> form, has_model |-> TRUE]

NoRequest == Request("none", "", <<>>, <<>>, FALSE, "none")

NoGen == [fn |-> "none", state |-> "none", items |-> <<>>, pos |-> 0, raised |-> ""]
Created(fn) == [NoGen EXCEPT !.fn = fn, !.state = "created"]

\* next(msg for msg in reversed(messages) if msg.role == "user", None),
\* as the index of the message (0 for None)
last_user(messages) ==
    LET users == {i \in 1..Len(messages) : messages[i].role = "user"}
    IN IF users = {} THEN 0 ELSE CHOOSE i \in users : \A j \in users : j <= i

\* The handler returns a body (a dict or a pydantic model).
ReturnJson(request, q, rt, body, p, u) ==
    /\ pc' = "done"
    /\ req' = request
    /\ question' = q
    /\ route' = rt
    /\ served' = "json"
    /\ status' = 200
    /\ resp' = body
    /\ out' = <<>>
    /\ gen' = NoGen
    /\ pipe' = p
    /\ upstream' = u
    /\ pipelineCalls' = IF p.mode = "none" THEN 0 ELSE 1
    /\ upstreamCalls' = IF u.method = "none" THEN 0 ELSE 1
    /\ UNCHANGED handlers

\* An HTTPException leaves the handler.
RaiseHTTP(request, q, rt, code, detail, p, u) ==
    /\ pc' = "done"
    /\ req' = request
    /\ question' = q
    /\ route' = rt
    /\ served' = "http_error"
    /\ status' = code
    /\ resp' = HTTPExceptionBody(detail)
    /\ out' = <<>>
    /\ gen' = NoGen
    /\ pipe' = p
    /\ upstream' = u
    /\ pipelineCalls' = IF p.mode = "none" THEN 0 ELSE 1
    /\ upstreamCalls' = IF u.method = "none" THEN 0 ELSE 1
    /\ UNCHANGED handlers

\* An exception no handler catches: the server answers 500 with the plain
\* text "Internal Server Error".
Unhandled(request, q, rt, p, u) ==
    /\ pc' = "done"
    /\ req' = request
    /\ question' = q
    /\ route' = rt
    /\ served' = "server_error"
    /\ status' = 500
    /\ resp' = [NoWire EXCEPT !.framing = "text", !.literal = "Internal Server Error"]
    /\ out' = <<>>
    /\ gen' = NoGen
    /\ pipe' = p
    /\ upstream' = u
    /\ pipelineCalls' = IF p.mode = "none" THEN 0 ELSE 1
    /\ upstreamCalls' = IF u.method = "none" THEN 0 ELSE 1
    /\ UNCHANGED handlers

\* The handler returns StreamingResponse(fn(...)); the generator has not run.
ReturnStream(request, q, rt, fn) ==
    /\ pc' = "streaming"
    /\ req' = request
    /\ question' = q
    /\ route' = rt
    /\ served' = "stream"
    /\ status' = 200
    /\ resp' = NoWire
    /\ out' = <<>>
    /\ gen' = Created(fn)
    /\ pipe' = NoPipe
    /\ upstream' = NoUpstream
    /\ pipelineCalls' = 0
    /\ upstreamCalls' = 0
    /\ UNCHANGED handlers

\* Resume generator g until its next yield, its return or its raise.
Advance(g) ==
    IF g.pos < Len(g.items)
    THEN /\ out' = Append(out, g.items[g.pos + 1])
         /\ gen' = [g EXCEPT !.pos = g.pos + 1, !.state = "suspended"]
         /\ pc' = "streaming"
    ELSE /\ out' = out
         /\ gen' = [g EXCEPT !.state = IF g.raised = "" THEN "returned" ELSE "raised"]
         /\ pc' = "done"

\* First resumption: the body runs from its start.
Start(g) == Advance([gen EXCEPT !.items = g.items, !.raised = g.raised])

----------------------------------------------------------------------------
\* api/services.py: ModelService.  A descriptor is a dict; the registry and
\* the lists handed out hold references to dicts.

LLM_MODEL_NAME == "gemma3:27b"
Refs == 1..(MaxModels + 1)
Null == [id |-> "", name |-> "", family |-> ""]
\* a model_config dict: the keys the registry and the router read
model_config(id, name, family) == [id |-> id, name |-> name, family |-> family]
\* a dict as __init__ writes it: the RAG model is of family "rag-enhanced"
descriptor(id, name) ==
    model_config(id, name, IF id = RAG_MODEL_NAME THEN "rag-enhanced" ELSE "gemma3")

\* ModelService.__init__: the two configured descriptors
InitialHeap ==
    [r \in Refs |-> IF r = 1 THEN descriptor(RAG_MODEL_NAME, RAG_MODEL_NAME)
                    ELSE IF r = 2 THEN descriptor(LLM_MODEL_NAME, LLM_MODEL_NAME)
                    ELSE Null]
ModelService == [models_config |-> <<1, 2>>]

NoList == [held |-> FALSE, items |-> <<>>, aliases |-> FALSE]
NoCaller == [listing |-> NoList, seen |-> <<>>]

Range(f) == {f[i] : i \in DOMAIN f}

\* the dicts no list refers to any more are gone
Collect(h, live) == [r \in Refs |-> IF r \in live THEN h[r] ELSE Null]

\* ModelService.get_model_by_id: the position of the first match, 0 for None
get_model_by_id(self, model_id) ==
    LET hits == {i \in 1..Len(self.models_config) :
                    heap[self.models_config[i]].id = model_id}
    IN IF hits = {} THEN 0 ELSE CHOOSE i \in hits : \A j \in hits : i <= j

\* a get_available_models that hands out the registry's own list
get_available_models_alias(self) ==
    [held |-> TRUE, items |-> self.models_config, aliases |-> TRUE]

\* ModelService.get_available_models: a shallow copy of the list
get_available_models(self) ==
    [held |-> TRUE, items |-> self.models_config, aliases |-> FALSE]

\* ModelService.get_openai_models: one ModelInfo per descriptor
get_openai_models(self) ==
    [i \in 1..Len(self.models_config) |-> <<heap[self.models_config[i]].id>>]

\* ModelService.get_openwebui_model_by_name
get_openwebui_model_by_name(self, model_name) ==
    LET hits == {i \in 1..Len(self.models_config) :
                    heap[self.models_config[i]].name = model_name}
    IN IF hits = {} THEN <<>>
       ELSE <<<<heap[self.models_config[CHOOSE i \in hits : \A j \in hits : i <= j]].name>>>>

----------------------------------------------------------------------------
\* The coroutines of the handlers on the asyncio event loop: where each one
\* waits for the pipeline or the upstream, and what its code does between
\* two suspensions.

TaskIds == {1, 2}

NoTask ==
    [fn |-> "none", mode |-> "none", phase |-> "none", got |-> "none", sent |-> 0,
     session |-> "none", gone |-> FALSE, observed |-> FALSE, result |-> "none"]

\* the coroutines, with the pipeline interface stream_rag_response picks
Coroutines ==
    {[fn |-> "process_with_rag", mode |-> "invoke"],
     [fn |-> "rag_chat_stream", mode |-> "invoke"],
     [fn |-> "proxy_to_llm", mode |-> "none"],
     [fn |-> "proxy_stream_to_llm", mode |-> "none"]}
        \cup {[fn |-> "stream_rag_response", mode |-> probe(attrs)] :
                 attrs \in SUBSET {"stream", "astream"}}

streams(fn) == fn \in {"rag_chat_stream", "stream_rag_response", "proxy_stream_to_llm"}
augmented(fn) == fn \in {"process_with_rag", "rag_chat_stream", "stream_rag_response"}

\* how the coroutine waits: the call runs in the default executor and the
\* coroutine awaits its future, the coroutine awaits an asynchronous
\* iterator or response, or the call runs in the coroutine itself, on the
\* thread of the event loop
wait_of(fn, mode) ==
    CASE fn = "stream_rag_response" /\ mode = "stream" -> "on_loop"
      [] fn = "stream_rag_response" /\ mode = "astream" -> "await"
      [] fn = "proxy_to_llm" -> "on_loop"
      [] fn = "proxy_stream_to_llm" -> "await"
      [] OTHER -> "run_in_executor"

\* whether the wait ends by itself: requests.post(timeout=120), and the
\* total timeout of an aiohttp.ClientSession
has_timeout(fn) == fn \in {"proxy_to_llm", "proxy_stream_to_llm"}

\* what the wait can end with
Items(task) ==
    IF task.mode \in {"stream", "astream"} \/ task.fn = "proxy_stream_to_llm"
    THEN {"end", "error"} \cup (IF task.sent < MaxChunks THEN {"chunk"} ELSE {})
    ELSE {"value", "error"}

\* an except clause that catches whatever is raised
catches_all(cls, exc) == TRUE

\* whether `except cls` catches exc: asyncio.CancelledError and GeneratorExit
\* derive from BaseException, not from Exception
catches(cls, exc) ==
    IF cls = "BaseException" THEN TRUE
    ELSE exc \notin {"CancelledError", "GeneratorExit"}

\* the except clause around the body of each streaming coroutine
except_clause(fn) == "Exception"

\* async with aiohttp.ClientSession(): closed on every exit
released(session) == IF session = "open" THEN "closed" ELSE session

\* the answer is split in words and sent chunk by chunk: one more chunk,
\* or the final one
emit(task, more) ==
    IF more
    THEN [task EXCEPT !.sent = @ + 1, !.phase = "suspended", !.got = "value"]
    ELSE [task EXCEPT !.sent = @ + 1, !.phase = "done", !.result = "completed"]

\* the code of the coroutine from the end of its wait to its next
\* suspension or its end
deliver(task, item, more) ==
    CASE item \in {"error", "timeout"} ->
           [task EXCEPT !.sent = IF streams(task.fn) THEN @ + 1 ELSE @,
                        !.phase = "done", !.result = "failed", !.got = item,
                        !.session = released(@)]
      [] item = "chunk" ->
           [task EXCEPT !.sent = @ + 1, !.phase = "suspended", !.got = item]
      [] item = "end" ->
           [task EXCEPT !.sent = IF task.fn = "proxy_stream_to_llm" THEN @ ELSE @ + 1,
                        !.phase = "done", !.result = "completed", !.got = item,
                        !.session = released(@)]
      [] OTHER ->
           IF streams(task.fn) THEN emit(task, more)
           ELSE [task EXCEPT !.phase = "done", !.result = "completed", !.got = item]

\* exc is thrown into the coroutine where it is suspended
unwind(task, exc) ==
    IF task.phase # "new" /\ catches(except_clause(task.fn), exc)
    THEN [task EXCEPT !.sent = @ + 1, !.phase = "done", !.result = "failed",
                      !.observed = TRUE, !.session = released(@)]
    ELSE [task EXCEPT !.phase = "done", !.result = "cancelled",
                      !.observed = TRUE, !.session = released(@)]

----------------------------------------------------------------------------
\* api/auth.py: AuthService.

DevKey == "sk-cheeseade-dev-key-001"
ApiKeys == {DevKey, "sk-other"}

UserInfo(user_id, permissions) == [user_id |-> user_id, permissions |-> permissions]
\* None, as dict.get returns it for a key the dict does not hold
NoInfo == UserInfo("", {})

\* the module global before the module is imported
NoAuthService ==
    [constructed |-> FALSE, auth_enabled |-> FALSE, api_key_enabled |-> FALSE,
     valid_api_keys |-> <<>>]

\* AuthService.__init__ under WEBUI_AUTH and ENABLE_API_KEY
AuthService(auth_enabled, api_key_enabled) ==
    [constructed |-> TRUE, auth_enabled |-> auth_enabled,
     api_key_enabled |-> api_key_enabled,
     valid_api_keys |-> [k \in {DevKey} |-> UserInfo("dev-user", {"read", "write"})]]

\* an Authorization header: <<>> for none, else the text before the key
\* (seven characters for "Bearer ") and the rest
Authorizations ==
    {<<>>} \cup {<<scheme, k>> : scheme \in {"Bearer ", "bearer ", "Basic  "},
                                 k \in ApiKeys}

NoUser == [authorization |-> <<>>, result |-> Fail(NoExc)]

\* AuthService.verify_api_key
verify_api_key(self, authorization) ==
    IF ~self.auth_enabled /\ ~self.api_key_enabled
    THEN Ok(UserInfo("anonymous", {"read", "write"}))
    ELSE IF authorization = <<>>
    THEN IF ~self.auth_enabled
         THEN Ok(UserInfo("anonymous", {"read"}))
         ELSE Fail(HTTPException(401, <<"missing_api_key">>))
    ELSE IF authorization[1] # "Bearer "
    THEN Fail(HTTPException(401, <<"invalid_auth_format">>))
    ELSE LET api_key == authorization[2]
             user_info == IF api_key \in DOMAIN self.valid_api_keys
                          THEN self.valid_api_keys[api_key] ELSE NoInfo
         IN IF user_info = NoInfo
            THEN IF ~self.auth_enabled
                 THEN Ok(UserInfo("dev-user", {"read", "write"}))
                 ELSE Fail(HTTPException(401, <<"invalid_api_key">>))
            ELSE Ok(user_info)

\* the permissions a verification grants: none when it raises
Permissions(r) == IF r.ok THEN r.value.permissions ELSE {}

----------------------------------------------------------------------------
\* server-logging/main.py: SQLiteManager.

\* how many save_conversation calls a run makes
MaxSaves == 3
\* how many contexts one logged conversation carries at most
MaxContexts == 2

\* the requests served at the same time
Calls == {1, 2}
Sessions == {"session-a", "session-b"}

\* the three tables of init_database, the first two in rowid order
EmptyDb == [rag_conversations |-> <<>>, rag_contexts |-> <<>>, user_sessions |-> {}]

\* RAGLogRequest: the session and the contexts
RAGLogRequest(session_id, contexts) == [session_id |-> session_id, contexts |-> contexts]
LogRequests ==
    {RAGLogRequest(sid, [k \in 1..n |-> "content"]) :
        sid \in Sessions, n \in 0..MaxContexts}

\* a call that is not running
NoSave ==
    [pc |-> "none", log_data |-> RAGLogRequest("", <<>>), conversation_id |-> 0,
     i |-> 0, writing |-> FALSE, view |-> EmptyDb, rolled_back |-> 0]

\* INSERT INTO rag_conversations
insert_conversation(view, conversation_id, log_data) ==
    [view EXCEPT !.rag_conversations =
        Append(@, [id |-> conversation_id, session_id |-> log_data.session_id,
                   contexts_count |-> Len(log_data.contexts)])]

\* INSERT INTO rag_contexts, i being the index enumerate gives
insert_context(view, conversation_id, i) ==
    [view EXCEPT !.rag_contexts =
        Append(@, [conversation_id |-> conversation_id, context_order |-> i])]

\* INSERT INTO user_sessions ... ON CONFLICT(session_id) DO UPDATE
upsert_session(view, session_id) ==
    [view EXCEPT !.user_sessions =
        IF \E r \in @ : r.session_id = session_id
        THEN {IF r.session_id = session_id
              THEN [r EXCEPT !.total_questions = @ + 1] ELSE r : r \in @}
        ELSE @ \cup {[session_id |-> session_id, total_questions |-> 1]}]

\* a connection that closes and writes out what it did not commit
close_flushing(committed, call) == IF call.writing THEN call.view ELSE committed

\* leaving "async with aiosqlite.connect" without a commit: the connection
\* closes and SQLite rolls its open transaction back
close(committed, call) == committed

\* the database as a connection sees it: its own transaction once it writes
view_of(committed, call) == IF call.writing THEN call.view ELSE committed

\* SQLite lets one connection write at a time
locked_by_other(c) == \E o \in Calls \ {c} : saves[o].writing

----------------------------------------------------------------------------
\* Actions.

\* the modules of the api package that keep a chat_handler global
Modules == {"ollama_api", "routes", "endpoints"}

\* whether the upstream service can be reached while a request is served,
\* for a handler that makes no upstream request
Reachability(reachable) ==
    [NoUpstream EXCEPT !.kind = IF reachable THEN "reachable" ELSE "unreachable"]

\* the dict a /health implementation returns
health_data(keys, value) == Wire(keys, "status", <<value>>, "absent", "absent")

Init ==
    /\ handlers = [m \in Modules |-> NoHandler]
    /\ pc = "idle"
    /\ req = NoRequest
    /\ question = <<>>
    /\ route = "none"
    /\ served = "none"
    /\ status = 0
    /\ resp = NoWire
    /\ out = <<>>
    /\ gen = NoGen
    /\ pipe = NoPipe
    /\ upstream = NoUpstream
    /\ pipelineCalls = 0
    /\ upstreamCalls = 0
    /\ heap = InitialHeap
    /\ model_service = ModelService
    /\ caller = NoCaller
    /\ tasks = [t \in TaskIds |-> NoTask]
    /\ thread = 0
    /\ auth_service = NoAuthService
    /\ current_user = NoUser
    /\ db = EmptyDb
    /\ saves = [c \in Calls |-> NoSave]
    /\ uuids = 0

\* a set_chat_handler that is also called with None after start-up
set_chat_handler_or_unset ==
    /\ pc = "idle"
    /\ UNCHANGED aside
    /\ \E m \in DOMAIN handlers :
          handlers' = [handlers EXCEPT
                         ![m] = IF handlers[m].installed THEN NoHandler
                                ELSE ChatHandler(RAG_MODEL_NAME, LLM_SERVER_URL)]
    /\ UNCHANGED <<pc, req, question, route, served, status, resp, out, gen,
                   pipe, upstream, pipelineCalls, upstreamCalls>>

\* server start-up installs the handler in a module's global
set_chat_handler ==
    /\ pc = "idle"
    /\ UNCHANGED aside
    /\ \E m \in DOMAIN handlers :
          /\ ~handlers[m].installed
          /\ handlers' = [handlers EXCEPT ![m] = ChatHandler(RAG_MODEL_NAME, LLM_SERVER_URL)]
    /\ UNCHANGED <<pc, req, question, route, served, status, resp, out, gen,
                   pipe, upstream, pipelineCalls, upstreamCalls>>

\* POST /api/chat (api/ollama_api.py)
chat_ollama ==
    /\ pc = "idle"
    /\ UNCHANGED aside
    /\ \E model \in ModelNames, messages \in MessageLists, stream \in BOOLEAN :
        LET request == Request("chat_ollama", model, messages, <<>>, stream, "messages")
            chat_handler == handlers["ollama_api"]
            user_message == last_user(messages)
        IN IF ~chat_handler.installed
           THEN RaiseHTTP(request, <<>>, "none", 503,
                          <<"Chat handler not initialized">>, NoPipe, NoUpstream)
           ELSE IF user_message = 0
           THEN RaiseHTTP(request, <<>>, "none", 400,
                          <<"No user message found">>, NoPipe, NoUpstream)
           ELSE LET q == messages[user_message].content IN
                IF IsRagModel(model, chat_handler)
                THEN IF stream
                     THEN ReturnStream(request, q, "rag", "rag_chat_stream")
                     ELSE \E o \in InvokeOutcomes :
                            LET p == Called("invoke", {}, o)
                                r == process_with_rag(p)
                            IN ReturnJson(request, q, "rag",
                                   IF r.ok THEN create_chat_response(model, r.value)
                                   ELSE create_chat_error_response(model, str(r.exc)),
                                   p, NoUpstream)
                ELSE \E o \in UpstreamOutcomes(stream) :
                        ReturnJson(request, q, "proxy",
                                   proxy_chat_to_ollama(request, o), NoPipe,
                                   Asked("requests.post", "/api/chat", stream, o))

\* POST /api/generate (api/ollama_api.py)
generate_ollama ==
    /\ pc = "idle"
    /\ UNCHANGED aside
    /\ \E model \in ModelNames, stream \in BOOLEAN :
        LET prompt == ContentOf(1)
            request == Request("generate_ollama", model, <<>>, prompt, stream, "prompt")
            chat_handler == handlers["ollama_api"]
        IN IF ~chat_handler.installed
           THEN RaiseHTTP(request, <<>>, "none", 503,
                          <<"Chat handler not initialized">>, NoPipe, NoUpstream)
           ELSE IF IsRagModel(model, chat_handler)
                THEN IF stream
                     THEN ReturnStream(request, prompt, "rag", "rag_generate_stream")
                     ELSE \E o \in InvokeOutcomes :
                            LET p == Called("invoke", {}, o)
                                r == process_with_rag(p)
                            IN ReturnJson(request, prompt, "rag",
                                   IF r.ok THEN create_generate_response(model, r.value)
                                   ELSE create_generate_error_response(model, str(r.exc)),
                                   p, NoUpstream)
                ELSE \E o \in UpstreamOutcomes(stream) :
                        ReturnJson(request, prompt, "proxy",
                                   proxy_generate_to_ollama(request, o), NoPipe,
                                   Asked("requests.post", "/api/generate", stream, o))

\* the StreamingResponse of chat_ollama resumes rag_chat_stream
resume_rag_chat_stream ==
    /\ pc = "streaming"
    /\ UNCHANGED aside
    /\ gen.fn = "rag_chat_stream"
    /\ IF gen.state = "created"
       THEN \E o \in InvokeOutcomes, attrs \in SUBSET {"stream", "astream"} :
              LET p == Called("invoke", attrs, o) IN
              /\ Start(rag_chat_stream(p, question, req.model))
              /\ pipe' = p
              /\ pipelineCalls' = pipelineCalls + 1
       ELSE /\ Advance(gen)
            /\ UNCHANGED <<pipe, pipelineCalls>>
    /\ UNCHANGED <<handlers, req, question, route, served, status, resp,
                   upstream, upstreamCalls>>

\* the StreamingResponse of generate_ollama resumes rag_generate_stream
resume_rag_generate_stream ==
    /\ pc = "streaming"
    /\ UNCHANGED aside
    /\ gen.fn = "rag_generate_stream"
    /\ IF gen.state = "created"
       THEN \E o \in InvokeOutcomes, attrs \in SUBSET {"stream", "astream"} :
              LET p == Called("invoke", attrs, o) IN
              /\ Start(rag_generate_stream(p, question, req.model))
              /\ pipe' = p
              /\ pipelineCalls' = pipelineCalls + 1
       ELSE /\ Advance(gen)
            /\ UNCHANGED <<pipe, pipelineCalls>>
    /\ UNCHANGED <<handlers, req, question, route, served, status, resp,
                   upstream, upstreamCalls>>

\* POST /api/chat/completions (api/routes.py)
chat_completions ==
    /\ pc = "idle"
    /\ UNCHANGED aside
    /\ \E model \in ModelNames, messages \in MessageLists, stream \in BOOLEAN :
        LET request == Request("chat_completions", model, messages, <<>>, stream, "messages")
            chat_handler == handlers["routes"]
        IN IF ~chat_handler.installed
           THEN RaiseHTTP(request, <<>>, "none", 503,
                          <<"Chat handler not initialized">>, NoPipe, NoUpstream)
           ELSE IF messages = <<>>
           THEN RaiseHTTP(request, <<>>, "none", 500,
                          <<"list index out of range">>, NoPipe, NoUpstream)
           ELSE LET user_question == messages[Len(messages)].content IN
                IF IsRagModel(model, chat_handler)
                THEN IF stream
                     THEN ReturnStream(request, user_question, "rag", "stream_rag_response")
                     ELSE \E o \in InvokeOutcomes :
                            LET p == Called("invoke", {}, o)
                                r == handle_chat_request(request, p)
                            IN IF r.ok
                               THEN ReturnJson(request, user_question, "rag",
                                               response_model(r.value).value,
                                               p, NoUpstream)
                               ELSE RaiseHTTP(request, user_question, "rag", 500,
                                              str(r.exc), p, NoUpstream)
                ELSE IF stream
                     THEN ReturnStream(request, user_question, "proxy", "proxy_stream_to_llm")
                     ELSE \E o \in UpstreamOutcomes(FALSE) :
                            LET r == proxy_to_llm(request, o)
                                u == Asked("requests.post", "/v1/chat/completions", FALSE, o)
                            IN IF r.ok
                               THEN IF response_model(r.value).ok
                                    THEN ReturnJson(request, user_question, "proxy",
                                                    response_model(r.value).value,
                                                    NoPipe, u)
                                    ELSE Unhandled(request, user_question, "proxy",
                                                   NoPipe, u)
                               ELSE RaiseHTTP(request, user_question, "proxy", 500,
                                              str(r.exc), NoPipe, u)

MessageText == <<"m">>      \* the value of a body's "message" key
BodyForms == {"message", "messages", "both", "neither"}

\* POST /api/chat (api/routes.py), the simplified protocol
chat_simple ==
    /\ pc = "idle"
    /\ UNCHANGED aside
    /\ \E form \in BodyForms, has_model \in BOOLEAN, stream \in BOOLEAN :
       \E given \in IF has_model THEN ModelNames ELSE {""} :
       \E messages \in IF form \in {"messages", "both"} THEN MessageLists ELSE {<<>>} :
        LET chat_handler == handlers["routes"]
            model == IF has_model THEN given ELSE chat_handler.rag_model_name
            request == [Request("chat_simple", model, messages, <<>>, stream, form)
                          EXCEPT !.has_model = has_model]
            \* the handler's outer except: the error as an Ollama-format dict
            caught(q, rt, e, p) ==
                ReturnJson(request, q, rt,
                           simple_error(IF has_model THEN given ELSE "unknown",
                                        <<"Error: ">> \o str(e)),
                           p, NoUpstream)
        IN IF ~chat_handler.installed
           THEN RaiseHTTP(request, <<>>, "none", 503,
                          <<"Chat handler not initialized">>, NoPipe, NoUpstream)
           ELSE IF form = "neither"
           THEN caught(<<>>, "none",
                       HTTPException(400, <<"Invalid request format. ",
                                            "Expected 'message' or 'messages' field.">>),
                       NoPipe)
           ELSE IF form = "messages" /\ messages = <<>>
           THEN caught(<<>>, "none", Raised("IndexError", <<"list index out of range">>),
                       NoPipe)
           ELSE LET q == IF form \in {"message", "both"} THEN MessageText
                         ELSE messages[Len(messages)].content
                IN
                IF IsRagModel(model, chat_handler)
                THEN IF stream
                     THEN ReturnStream(request, q, "rag", "ollama_stream_generator")
                     ELSE \E o \in InvokeOutcomes :
                            LET p == Called("invoke", {}, o)
                                r == process_with_rag(p)
                            IN IF r.ok
                               THEN ReturnJson(request, q, "rag",
                                               simple_response(model, r.value),
                                               p, NoUpstream)
                               ELSE caught(q, "rag", r.exc, p)
                ELSE IF stream
                     THEN ReturnStream(request, q, "proxy", "proxy_stream")
                     ELSE IF "requests" \notin routes_globals
                          THEN caught(q, "proxy", NameError("requests"), NoPipe)
                          ELSE \E o \in UpstreamOutcomes(FALSE) :
                                 ReturnJson(request, q, "proxy", simple_proxy(model, o),
                                            NoPipe,
                                            Asked("requests.post", "/api/chat", FALSE, o))

\* GET /health (api/ollama_api.py)
ollama_api_health_check ==
    /\ pc = "idle"
    /\ UNCHANGED aside
    /\ \E reachable \in BOOLEAN :
        LET chat_handler == handlers["ollama_api"]
            request == Request("ollama_api.health_check", "", <<>>, <<>>, FALSE, "none")
        IN ReturnJson(request, <<>>, "none",
                      health_data({"status", "service", "timestamp", "chat_handler",
                                   "models"},
                                  IF chat_handler.installed THEN "healthy"
                                  ELSE "degraded"),
                      NoPipe, Reachability(reachable))

\* GET /health (api/router.py), which returns endpoints.get_health_status()
get_health_status ==
    /\ pc = "idle"
    /\ UNCHANGED aside
    /\ \E reachable \in BOOLEAN :
        LET chat_handler == handlers["endpoints"]
            request == Request("endpoints.get_health_status", "", <<>>, <<>>, FALSE, "none")
        IN ReturnJson(request, <<>>, "none",
                      health_data({"status", "service", "timestamp", "chat_handler",
                                   "models"},
                                  IF chat_handler.installed THEN "healthy"
                                  ELSE "degraded"),
                      NoPipe, Reachability(reachable))

\* GET /health (api/routes.py)
routes_health_check ==
    /\ pc = "idle"
    /\ UNCHANGED aside
    /\ \E reachable \in BOOLEAN :
        LET request == Request("routes.health_check", "", <<>>, <<>>, FALSE, "none")
        IN ReturnJson(request, <<>>, "none",
                      health_data({"status", "service", "timestamp",
                                   "models_available"}, "healthy"),
                      NoPipe, Reachability(reachable))

\* what retriever.invoke does: it returns documents or raises
RetrieverOutcomes == {[frags |-> <<>>, raises |-> r] : r \in BOOLEAN}

\* POST /debug/test-retrieval (api/routes.py), with ChatHandler.test_retrieval
test_retrieval ==
    /\ pc = "idle"
    /\ UNCHANGED aside
    /\ \E o \in RetrieverOutcomes :
        LET q == ContentOf(1)
            request == Request("test_retrieval", "", <<>>, q, FALSE, "question")
            chat_handler == handlers["routes"]
            p == Called("retriever.invoke", {}, o)
            failed == <<"retrieval test failed: ">>
        IN IF ~chat_handler.installed
           THEN RaiseHTTP(request, <<>>, "none", 503,
                          <<"Chat handler not initialized">>, NoPipe, NoUpstream)
           ELSE IF o.raises
           THEN RaiseHTTP(request, q, "none", 500,
                          failed \o str(HTTPException(500, failed \o PipelineError)),
                          p, NoUpstream)
           ELSE ReturnJson(request, q, "none",
                           Wire({"question", "retrieved_docs", "docs"}, "docs", <<>>,
                                "absent", "absent"),
                           p, NoUpstream)

\* the pipeline as stream_rag_response finds it: the interfaces rag_chain
\* exposes, and what the one it calls does
PipelineCalls ==
    UNION {{Called(probe(attrs), attrs, o) :
               o \in IF probe(attrs) = "invoke" THEN InvokeOutcomes ELSE StreamOutcomes} :
           attrs \in SUBSET {"stream", "astream"}}

\* the StreamingResponse of chat_completions resumes stream_rag_response
resume_stream_rag_response ==
    /\ pc = "streaming"
    /\ UNCHANGED aside
    /\ gen.fn = "stream_rag_response"
    /\ IF gen.state = "created"
       THEN \E p \in PipelineCalls :
              /\ Start(stream_rag_response(p, question, req.model))
              /\ pipe' = p
              /\ pipelineCalls' = pipelineCalls + 1
       ELSE /\ Advance(gen)
            /\ UNCHANGED <<pipe, pipelineCalls>>
    /\ UNCHANGED <<handlers, req, question, route, served, status, resp,
                   upstream, upstreamCalls>>

\* the StreamingResponse of chat_simple resumes ollama_stream_generator
resume_ollama_stream_generator ==
    /\ pc = "streaming"
    /\ UNCHANGED aside
    /\ gen.fn = "ollama_stream_generator"
    /\ IF gen.state = "created"
       THEN \E p \in PipelineCalls :
              /\ Start(ollama_stream_generator(p, question, req.model))
              /\ pipe' = p
              /\ pipelineCalls' = pipelineCalls + 1
       ELSE /\ Advance(gen)
            /\ UNCHANGED <<pipe, pipelineCalls>>
    /\ UNCHANGED <<handlers, req, question, route, served, status, resp,
                   upstream, upstreamCalls>>

\* the StreamingResponse of chat_completions resumes proxy_stream_to_llm
resume_proxy_stream_to_llm ==
    /\ pc = "streaming"
    /\ UNCHANGED aside
    /\ gen.fn = "proxy_stream_to_llm"
    /\ IF gen.state = "created"
       THEN \E o \in UpstreamStreams :
              /\ Start(proxy_stream_to_llm(req, o))
              /\ upstream' = Asked("aiohttp.post", "/v1/chat/completions", TRUE, o)
              /\ upstreamCalls' = upstreamCalls + 1
       ELSE /\ Advance(gen)
            /\ UNCHANGED <<upstream, upstreamCalls>>
    /\ UNCHANGED <<handlers, req, question, route, served, status, resp,
                   pipe, pipelineCalls>>

\* the StreamingResponse of chat_simple resumes proxy_stream
resume_proxy_stream ==
    /\ pc = "streaming"
    /\ UNCHANGED aside
    /\ gen.fn = "proxy_stream"
    /\ IF gen.state = "created"
       THEN \E o \in UpstreamStreams :
              /\ Start(proxy_stream(req.model, o))
              /\ upstream' = Asked("aiohttp.post", "/api/chat", req.stream, o)
              /\ upstreamCalls' = upstreamCalls + 1
       ELSE /\ Advance(gen)
            /\ UNCHANGED <<upstream, upstreamCalls>>
    /\ UNCHANGED <<handlers, req, question, route, served, status, resp,
                   pipe, pipelineCalls>>

\* the response is complete; the client sends its next request
next_request ==
    /\ pc = "done"
    /\ UNCHANGED aside
    /\ pc' = "idle"
    /\ req' = NoRequest
    /\ question' = <<>>
    /\ route' = "none"
    /\ served' = "none"
    /\ status' = 0
    /\ resp' = NoWire
    /\ out' = <<>>
    /\ gen' = NoGen
    /\ pipe' = NoPipe
    /\ upstream' = NoUpstream
    /\ pipelineCalls' = 0
    /\ upstreamCalls' = 0
    /\ UNCHANGED handlers

Next ==
    \/ set_chat_handler
    \/ chat_ollama
    \/ generate_ollama
    \/ resume_rag_chat_stream
    \/ resume_rag_generate_stream
    \/ chat_completions
    \/ chat_simple
    \/ resume_stream_rag_response
    \/ resume_ollama_stream_generator
    \/ resume_proxy_stream_to_llm
    \/ resume_proxy_stream
    \/ ollama_api_health_check
    \/ get_health_status
    \/ routes_health_check
    \/ test_retrieval
    \/ next_request

Spec == Init /\ [][Next]_vars

----------------------------------------------------------------------------
\* The model registry and its callers.

\* the ids callers pass: the two the registry starts with, one it does not
ModelIds == {RAG_MODEL_NAME, LLM_MODEL_NAME, "new-model"}

\* the dicts callers pass to add_model: one whose id is present, a new one,
\* a new id under the name of the RAG model
ModelConfigs ==
    {descriptor(LLM_MODEL_NAME, LLM_MODEL_NAME),
     descriptor("new-model", "new-model"),
     model_config("new-model", RAG_MODEL_NAME, "gemma3")}

\* a caller takes the list of descriptors
caller_get_available_models ==
    /\ caller' = [listing |-> get_available_models(model_service), seen |-> <<>>]
    /\ UNCHANGED <<heap, model_service, gateway, loop, auth, store>>

\* the caller appends to, or pops from, the list it was given
caller_mutates_list ==
    /\ caller.listing.held
    /\ \E items \in
           {SubSeq(caller.listing.items, 1, Len(caller.listing.items) - 1)}
             \cup (IF caller.listing.items # <<>>
                      /\ Len(caller.listing.items) < MaxModels
                   THEN {Append(caller.listing.items, caller.listing.items[1])}
                   ELSE {}) :
        LET mine == IF caller.listing.aliases THEN items
                    ELSE model_service.models_config
        IN /\ items # caller.listing.items
           /\ caller' = [caller EXCEPT !.listing.items = items, !.seen = <<>>]
           /\ model_service' = [model_service EXCEPT !.models_config = mine]
           /\ heap' = Collect(heap, Range(items) \cup Range(mine))
    /\ UNCHANGED <<gateway, loop, auth, store>>

\* the caller assigns to a key of a dict of the list it was given
caller_mutates_descriptor ==
    /\ caller.listing.held
    /\ \E r \in Range(caller.listing.items) :
          /\ heap[r].name # "renamed"
          /\ heap' = [heap EXCEPT ![r].name = "renamed"]
    /\ caller' = [caller EXCEPT !.seen = <<>>]
    /\ UNCHANGED <<model_service, gateway, loop, auth, store>>

\* ModelService.add_model
add_model ==
    /\ \E config \in ModelConfigs :
        LET id == config.id
            live == Range(model_service.models_config) \cup Range(caller.listing.items)
        IN IF get_model_by_id(model_service, id) # 0
           THEN /\ caller' = [caller EXCEPT !.seen = <<>>]
                /\ UNCHANGED <<heap, model_service>>
           ELSE /\ Len(model_service.models_config) < MaxModels
                /\ Refs \ live # {}
                /\ LET r == CHOOSE x \in Refs \ live : \A y \in Refs \ live : x <= y
                       grown == Append(model_service.models_config, r)
                   IN /\ heap' = [heap EXCEPT ![r] = config]
                      /\ model_service' = [model_service EXCEPT !.models_config = grown]
                      /\ caller' =
                            [caller EXCEPT
                               !.seen = <<>>,
                               !.listing.items =
                                  IF caller.listing.aliases THEN grown ELSE @]
    /\ UNCHANGED <<gateway, loop, auth, store>>

\* ModelService.remove_model
remove_model ==
    /\ \E model_id \in ModelIds :
        LET kept == SelectSeq(model_service.models_config,
                              LAMBDA r : heap[r].id # model_id)
        IN /\ model_service' = [model_service EXCEPT !.models_config = kept]
           /\ caller' = [caller EXCEPT
                            !.seen = <<>>,
                            !.listing.aliases = FALSE]
           /\ heap' = Collect(heap, Range(kept) \cup Range(caller.listing.items))
    /\ UNCHANGED <<gateway, loop, auth, store>>

\* GET /api/models (api/routes.py)
list_openai_models ==
    /\ caller' = [caller EXCEPT !.seen = get_openai_models(model_service)]
    /\ UNCHANGED <<heap, model_service, gateway, loop, auth, store>>

\* a describing request that registers a name the registry does not hold
show_model_registering ==
    /\ \E name \in {RAG_MODEL_NAME, "new-model"} :
        LET found == get_openwebui_model_by_name(model_service, name)
            free == Refs \ Range(model_service.models_config)
            r == CHOOSE x \in free : \A y \in free : x <= y
        IN /\ caller' = [caller EXCEPT !.seen = found]
           /\ IF found = <<>> /\ Len(model_service.models_config) < MaxModels
              THEN /\ heap' = [heap EXCEPT ![r] = descriptor(name, name)]
                   /\ model_service' =
                        [model_service EXCEPT !.models_config = Append(@, r)]
              ELSE UNCHANGED <<heap, model_service>>
    /\ UNCHANGED <<gateway, loop, auth, store>>

\* GET /api/show?name= (api/routes.py)
show_model ==
    /\ \E name \in {RAG_MODEL_NAME, "new-model"} :
          caller' = [caller EXCEPT
                       !.seen = get_openwebui_model_by_name(model_service, name)]
    /\ UNCHANGED <<heap, model_service, gateway, loop, auth, store>>

NextRegistry ==
    \/ caller_get_available_models
    \/ caller_mutates_list
    \/ caller_mutates_descriptor
    \/ add_model
    \/ remove_model
    \/ list_openai_models
    \/ show_model

SpecRegistry == Init /\ [][NextRegistry]_vars

----------------------------------------------------------------------------
\* The router of api/routes.py together with the registry it imports
\* (from .services import model_service): its chat requests, server
\* start-up, and the registry's mutators.

\* api/routes.py: set_chat_handler, called once at server start-up
routes_set_chat_handler ==
    /\ pc = "idle"
    /\ ~handlers["routes"].installed
    /\ handlers' = [handlers EXCEPT
                       !["routes"] = ChatHandler(RAG_MODEL_NAME, LLM_SERVER_URL)]
    /\ UNCHANGED <<pc, req, question, route, served, status, resp, out, gen,
                   pipe, upstream, pipelineCalls, upstreamCalls>>
    /\ UNCHANGED aside

NextRoutes ==
    \/ routes_set_chat_handler
    \/ chat_completions
    \/ resume_stream_rag_response
    \/ resume_proxy_stream_to_llm
    \/ next_request
    \/ add_model
    \/ remove_model

SpecRoutes == Init /\ [][NextRoutes]_vars

\* The requests of the gateway: those of the API modules and the listing and
\* describing requests answered from the registry.
NextRequests ==
    \/ Next
    \/ list_openai_models
    \/ show_model

SpecRequests == Init /\ [][NextRequests]_vars

----------------------------------------------------------------------------
\* Authentication (api/auth.py).

\* the module is imported: auth_service = AuthService()
construct_auth_service ==
    /\ ~auth_service.constructed
    /\ \E auth_enabled \in BOOLEAN, api_key_enabled \in BOOLEAN :
          auth_service' = AuthService(auth_enabled, api_key_enabled)
    /\ UNCHANGED <<current_user, gateway, registry, loop, store>>

\* the FastAPI dependency get_current_user
get_current_user ==
    /\ auth_service.constructed
    /\ \E authorization \in Authorizations :
          current_user' = [authorization |-> authorization,
                           result |-> verify_api_key(auth_service, authorization)]
    /\ UNCHANGED <<auth_service, gateway, registry, loop, store>>

\* AuthService.add_api_key
add_api_key ==
    /\ auth_service.constructed
    /\ \E api_key \in ApiKeys, permissions \in {{"read"}, {"read", "write"}} :
        LET user_info == UserInfo("added-user", permissions)
            keys == auth_service.valid_api_keys
        IN /\ api_key \notin DOMAIN keys
           /\ auth_service' =
                [auth_service EXCEPT
                   !.valid_api_keys =
                      [k \in DOMAIN keys \cup {api_key} |->
                          IF k = api_key THEN user_info ELSE keys[k]]]
    /\ UNCHANGED <<current_user, gateway, registry, loop, store>>

\* AuthService.remove_api_key
remove_api_key ==
    /\ auth_service.constructed
    /\ \E api_key \in DOMAIN auth_service.valid_api_keys :
        LET keys == auth_service.valid_api_keys
        IN auth_service' =
             [auth_service EXCEPT
                !.valid_api_keys = [k \in DOMAIN keys \ {api_key} |-> keys[k]]]
    /\ UNCHANGED <<current_user, gateway, registry, loop, store>>

----------------------------------------------------------------------------
\* The logging store (server-logging/main.py).

\* save_conversation up to its first statement: the ids and the connection
save_conversation ==
    /\ uuids < MaxSaves
    /\ \E c \in Calls, log_data \in LogRequests :
        /\ saves[c].pc = "none"
        /\ saves' = [saves EXCEPT ![c] =
                        [NoSave EXCEPT !.pc = "insert_conversation",
                                       !.log_data = log_data,
                                       !.conversation_id = uuids + 1]]
    /\ uuids' = uuids + 1
    /\ UNCHANGED <<db, gateway, registry, loop, auth>>

\* the INSERT of the conversation row, which opens the transaction
execute_insert_conversation ==
    /\ \E c \in Calls :
        LET call == saves[c]
        IN /\ call.pc = "insert_conversation"
           /\ ~locked_by_other(c)
           /\ saves' = [saves EXCEPT ![c] =
                 [call EXCEPT
                    !.writing = TRUE,
                    !.view = insert_conversation(view_of(db, call),
                                                 call.conversation_id, call.log_data),
                    !.pc = IF Len(call.log_data.contexts) > 0
                           THEN "insert_contexts" ELSE "upsert_session"]]
    /\ UNCHANGED <<db, uuids, gateway, registry, loop, auth>>

\* one turn of the loop over enumerate(log_data.contexts)
execute_insert_context ==
    /\ \E c \in Calls :
        LET call == saves[c]
        IN /\ call.pc = "insert_contexts"
           /\ ~locked_by_other(c)
           /\ saves' = [saves EXCEPT ![c] =
                 [call EXCEPT
                    !.writing = TRUE,
                    !.view = insert_context(view_of(db, call),
                                            call.conversation_id, call.i),
                    !.i = call.i + 1,
                    !.pc = IF call.i + 1 < Len(call.log_data.contexts)
                           THEN "insert_contexts" ELSE "upsert_session"]]
    /\ UNCHANGED <<db, uuids, gateway, registry, loop, auth>>

\* the statement on user_sessions
execute_upsert_session ==
    /\ \E c \in Calls :
        LET call == saves[c]
        IN /\ call.pc = "upsert_session"
           /\ ~locked_by_other(c)
           /\ saves' = [saves EXCEPT ![c] =
                 [call EXCEPT
                    !.writing = TRUE,
                    !.view = upsert_session(view_of(db, call),
                                            call.log_data.session_id),
                    !.pc = "commit"]]
    /\ UNCHANGED <<db, uuids, gateway, registry, loop, auth>>

\* await db.commit(), and the return of the conversation id
commit ==
    /\ \E c \in Calls :
        LET call == saves[c]
        IN /\ call.pc = "commit"
           /\ db' = view_of(db, call)
           /\ saves' = [saves EXCEPT ![c] =
                 [call EXCEPT !.writing = FALSE, !.view = EmptyDb,
                              !.pc = "returned"]]
    /\ UNCHANGED <<uuids, gateway, registry, loop, auth>>

\* a statement or the commit raises (the database is locked past the busy
\* timeout, the disk is full, a value cannot be stored): the exception
\* leaves the "async with" block and save_conversation
save_conversation_raises ==
    /\ \E c \in Calls :
        LET call == saves[c]
        IN /\ call.pc \in {"insert_conversation", "insert_contexts",
                            "upsert_session", "commit"}
           /\ db' = close(db, call)
           /\ saves' = [saves EXCEPT ![c] =
                 [call EXCEPT
                    !.writing = FALSE, !.view = EmptyDb, !.pc = "raised",
                    !.rolled_back =
                       IF call.writing
                       THEN Len(call.view.rag_conversations)
                              - Len(db.rag_conversations)
                            + Len(call.view.rag_contexts) - Len(db.rag_contexts)
                       ELSE 0]]
    /\ UNCHANGED <<uuids, gateway, registry, loop, auth>>

\* POST /api/log answers: success, or 500 for what save_conversation raised
log_rag_conversation ==
    /\ \E c \in Calls :
        /\ saves[c].pc \in {"returned", "raised"}
        /\ saves' = [saves EXCEPT ![c] = NoSave]
    /\ UNCHANGED <<db, uuids, gateway, registry, loop, auth>>

NextStore ==
    \/ save_conversation
    \/ execute_insert_conversation
    \/ execute_insert_context
    \/ execute_upsert_session
    \/ commit
    \/ save_conversation_raises
    \/ log_rag_conversation

SpecStore == Init /\ [][NextStore]_vars

NextAuth ==
    \/ construct_auth_service
    \/ get_current_user
    \/ add_api_key
    \/ remove_api_key

SpecAuth == Init /\ [][NextAuth]_vars

----------------------------------------------------------------------------
\* The event loop.

\* a request arrives and its handler's coroutine is created
accept_request ==
    /\ thread = 0
    /\ \E t \in TaskIds, c \in Coroutines :
          /\ tasks[t].phase = "none"
          /\ tasks' = [tasks EXCEPT ![t] = [NoTask EXCEPT !.fn = c.fn, !.mode = c.mode,
                                                           !.phase = "new"]]
    /\ UNCHANGED <<thread, gateway, registry, auth, store>>

\* the loop resumes a coroutine that can run, up to its next suspension
run_task ==
    /\ thread = 0
    /\ \E t \in TaskIds :
        LET task == tasks[t] IN
        /\ task.phase \in {"new", "suspended", "ready"}
        /\ IF task.phase = "ready"
           THEN /\ \E more \in {b \in BOOLEAN : b => task.sent < MaxChunks} :
                     tasks' = [tasks EXCEPT ![t] = deliver(task, task.got, more)]
                /\ thread' = 0
           ELSE IF task.phase = "suspended" /\ task.got = "value"
           THEN /\ \E more \in {b \in BOOLEAN : b => task.sent < MaxChunks} :
                     tasks' = [tasks EXCEPT ![t] = emit(task, more)]
                /\ thread' = 0
           ELSE /\ tasks' = [tasks EXCEPT
                               ![t].phase = "waiting",
                               ![t].session = IF task.fn = "proxy_stream_to_llm"
                                              THEN "open" ELSE @]
                /\ thread' = IF wait_of(task.fn, task.mode) = "on_loop" THEN t ELSE 0
    /\ UNCHANGED <<gateway, registry, auth, store>>

\* the pipeline or the upstream produces what the coroutine waits for
answer ==
    /\ \E t \in TaskIds :
        LET task == tasks[t] IN
        /\ task.phase = "waiting"
        /\ \E item \in Items(task) :
             IF wait_of(task.fn, task.mode) = "on_loop"
             THEN /\ \E more \in {b \in BOOLEAN : b => task.sent < MaxChunks} :
                       tasks' = [tasks EXCEPT ![t] = deliver(task, item, more)]
                  /\ thread' = 0
             ELSE /\ tasks' = [tasks EXCEPT ![t].phase = "ready", ![t].got = item]
                  /\ UNCHANGED thread
    /\ UNCHANGED <<gateway, registry, auth, store>>

\* the timeout of the HTTP client expires
timeout ==
    /\ \E t \in TaskIds :
        LET task == tasks[t] IN
        /\ task.phase = "waiting"
        /\ has_timeout(task.fn)
        /\ IF wait_of(task.fn, task.mode) = "on_loop"
           THEN /\ tasks' = [tasks EXCEPT ![t] = deliver(task, "timeout", FALSE)]
                /\ thread' = 0
           ELSE /\ tasks' = [tasks EXCEPT ![t].phase = "ready", ![t].got = "timeout"]
                /\ UNCHANGED thread
    /\ UNCHANGED <<gateway, registry, auth, store>>

\* the client of a streamed response goes away
client_disconnects ==
    /\ \E t \in TaskIds :
          /\ streams(tasks[t].fn)
          /\ tasks[t].phase \notin {"none", "done"}
          /\ ~tasks[t].gone
          /\ tasks' = [tasks EXCEPT ![t].gone = TRUE]
    /\ UNCHANGED <<thread, gateway, registry, auth, store>>

\* the server sees the disconnect: the response task is cancelled where it
\* awaits, or the generator it left at a yield is closed
observe_disconnect ==
    /\ thread = 0
    /\ \E t \in TaskIds :
        LET task == tasks[t] IN
        /\ task.gone /\ ~task.observed
        /\ task.phase \in {"new", "waiting", "ready", "suspended"}
        /\ \E exc \in IF task.phase = "suspended"
                       THEN {"CancelledError", "GeneratorExit"}
                       ELSE {"CancelledError"} :
              tasks' = [tasks EXCEPT ![t] = unwind(task, exc)]
    /\ UNCHANGED <<thread, gateway, registry, auth, store>>

NextLoop ==
    \/ accept_request
    \/ run_task
    \/ answer
    \/ timeout
    \/ client_disconnects
    \/ observe_disconnect

SpecLoop == Init /\ [][NextLoop]_vars

\* the loop runs what can run, timers fire, a seen disconnect is acted on;
\* nothing obliges the pipeline, the upstream or the client to act
SpecLoopFair ==
    /\ SpecLoop
    /\ WF_vars(run_task) /\ WF_vars(timeout) /\ WF_vars(observe_disconnect)

----------------------------------------------------------------------------
\* Vocabulary of the properties.

\* a chat or generate request has been taken by its handler
ChatEndpoints == {"chat_ollama", "generate_ollama", "chat_completions", "chat_simple"}
Handled == req.endpoint \in ChatEndpoints
Ended == pc = "done"
AugmentedStream == Handled /\ served = "stream" /\ route = "rag"
PipelineReturned == pipe.mode # "none" /\ ~pipe.raises
PipelineRaised == pipe.mode # "none" /\ pipe.raises

IsTerminal(c) == c.done = "true" \/ c.finish_reason = "stop"
IsErrorObject(c) ==
    \/ c.error # <<>>
    \/ (c.content # <<>> /\ c.content[1] = "Error: ")
IsContent(c) == c.content # <<>> /\ ~IsTerminal(c)

Positions(P(_)) == {i \in 1..Len(out) : P(out[i])}

\* all content fields of the emitted chunks, concatenated in emission order
Streamed == Flatten([i \in 1..Len(out) |-> out[i].content])

Shape(w) == <<w.framing, w.keys, w.field>>

\* the handler of the module that serves the request
HandlerOf(endpoint) ==
    IF endpoint \in {"chat_ollama", "generate_ollama"}
    THEN handlers["ollama_api"] ELSE handlers["routes"]

\* the request carries a messages list that the handler reads
ReadsMessages ==
    \/ req.endpoint \in {"chat_ollama", "chat_completions"}
    \/ (req.endpoint = "chat_simple" /\ req.form = "messages")

\* a malformed chat request: a messages list with no user-role message (an
\* empty list included), or a simplified body with neither key
Malformed ==
    \/ (ReadsMessages /\ last_user(req.messages) = 0)
    \/ (req.endpoint = "chat_simple" /\ req.form = "neither")

----------------------------------------------------------------------------
\* C1: for a streamed augmented request served by rag_chat_stream,
\* rag_generate_stream or the word-splitting fallback of stream_rag_response,
\* the content fields of the emitted chunks, concatenated in emission order,
\* are exactly the answer the stream=false response carries.
C1_StreamIsLossless ==
    (/\ AugmentedStream /\ Ended /\ PipelineReturned
     /\ pipe.mode = "invoke"
     /\ req.endpoint \in {"chat_ollama", "generate_ollama", "chat_completions"})
    => Streamed = (CASE req.endpoint = "chat_ollama" ->
                          create_chat_response(req.model, AnswerOf(pipe)).content
                     [] req.endpoint = "generate_ollama" ->
                          create_generate_response(req.model, AnswerOf(pipe)).content
                     [] OTHER -> ChatResponse(req.model, AnswerOf(pipe)).content)

\* C2: every streamed augmented request, however it ends, has emitted exactly
\* one terminal chunk (done=true, or finish_reason=stop) and no content chunk
\* after it.
C2_ExactlyOneTerminalChunk ==
    (AugmentedStream /\ Ended)
    => /\ Cardinality(Positions(IsTerminal)) = 1
       /\ \A t \in Positions(IsTerminal) : \A i \in Positions(IsContent) : i < t

\* C3: a request whose model is not exactly the augmented model name never
\* reaches the pipeline; unless it is rejected before routing (no handler,
\* malformed) it takes the proxy path, and the gateway never answers it 404 or
\* with any HTTP error it did not get from asking the upstream.
C3_UnknownModelIsProxied ==
    (Handled /\ req.model # RAG_MODEL_NAME)
    => /\ pipelineCalls = 0
       /\ pipe = NoPipe
       /\ route # "rag"
       /\ status # 404
       /\ (HandlerOf(req.endpoint).installed /\ ~Malformed) => route = "proxy"
       /\ (route = "proxy" /\ served = "http_error") => upstreamCalls = 1

\* a case variant and a prefix of the augmented name have both been proxied
C3_Witness ==
    /\ Ended /\ route = "proxy" /\ upstreamCalls = 1
    /\ req.model \in {"RAG-CHEESEADE:LATEST", "rag-cheeseade"}

\* C4 (as stated): the simplified request {message: X} gets a response of the
\* same wire shape as the OpenAI-style request gets for the same model and
\* answer, for stream=false and for stream=true.
C4_SimpleHasOpenAIShape ==
    (/\ req.endpoint = "chat_simple" /\ req.form = "message" /\ route = "rag"
     /\ Ended /\ PipelineReturned)
    => IF req.stream
       THEN [i \in 1..Len(out) |-> Shape(out[i])]
              = [i \in 1..Len(stream_rag_response(pipe, question, req.model).items) |->
                    Shape(stream_rag_response(pipe, question, req.model).items[i])]
       ELSE Shape(resp) = Shape(ChatResponse(req.model, AnswerOf(pipe)))

\* C4 (amended): with stream=false the simplified request gets the answer
\* text the OpenAI-style response carries, but in the Ollama-style chat
\* envelope and not in the OpenAI-style one; with stream=true what it has
\* emitted when the stream ends is never the OpenAI-style chunk sequence.
C4_SimpleHasOllamaShape ==
    (/\ req.endpoint = "chat_simple" /\ req.form = "message" /\ route = "rag"
     /\ Ended /\ PipelineReturned)
    => IF req.stream
       THEN out # stream_rag_response(pipe, question, req.model).items
       ELSE /\ served = "json"
            /\ resp.content = ChatResponse(req.model, AnswerOf(pipe)).content
            /\ Shape(resp) = Shape(create_chat_response(req.model, AnswerOf(pipe)))
            /\ Shape(resp) # Shape(ChatResponse(req.model, AnswerOf(pipe)))

C4_Witness ==
    /\ req.endpoint = "chat_simple" /\ req.form = "message" /\ route = "rag"
    /\ Ended /\ ~req.stream /\ PipelineReturned
    /\ AnswerOf(pipe) = <<"a", " ", "a">>
    /\ resp.content = <<"a", " ", "a">>

\* C5: a stream=false augmented request on which the pipeline returns T is
\* answered 200 with a body whose answer field (message.content, response,
\* choices[0].message.content) is exactly T, after exactly one pipeline call.
C5_NonStreamAnswerIsExact ==
    (Handled /\ Ended /\ route = "rag" /\ ~req.stream /\ PipelineReturned)
    => /\ served = "json"
       /\ status = 200
       /\ resp.content = AnswerOf(pipe)
       /\ resp.field = (CASE req.endpoint = "generate_ollama" -> "response"
                          [] req.endpoint = "chat_completions" ->
                               "choices[0].message.content"
                          [] OTHER -> "message.content")
       /\ pipelineCalls = 1

\* an answer with leading, doubled and trailing whitespace was returned whole
C5_Witness ==
    /\ Ended /\ route = "rag" /\ ~req.stream /\ served = "json"
    /\ AnswerOf(pipe) = <<" ", "a", " ", " ", "a">>
    /\ resp.content = <<" ", "a", " ", " ", "a">>
    /\ req.endpoint = "chat_completions"

\* C6: on every chat endpoint the question handed on is the content of the
\* last user-role message of the request.
C6_QuestionIsLastUserMessage ==
    (Handled /\ ReadsMessages /\ route # "none" /\ last_user(req.messages) # 0)
    => question = req.messages[last_user(req.messages)].content

\* C7: a malformed chat request is answered 400, and neither the pipeline nor
\* the upstream is contacted for it.
C7_MalformedIsRejected ==
    (Handled /\ HandlerOf(req.endpoint).installed /\ Malformed)
    => /\ status = 400
       /\ pipelineCalls = 0
       /\ upstreamCalls = 0

\* C8: when the pipeline raises in a streamed augmented request, the stream
\* ends having emitted exactly one error object, with no content chunk and no
\* further terminal chunk after it.
C8_OneErrorObjectThenEnd ==
    (AugmentedStream /\ Ended /\ PipelineRaised)
    => /\ Cardinality(Positions(IsErrorObject)) = 1
       /\ \A e \in Positions(IsErrorObject) :
             \A i \in (e + 1)..Len(out) : ~IsContent(out[i]) /\ ~IsTerminal(out[i])
       /\ gen.state = "returned"

\* C9: on the simplified endpoint a pipeline failure in a streamed augmented
\* request reaches the client as an error object carrying the message; the
\* stream is not an ordinary completed one.
C9_SimpleStreamRendersError ==
    (/\ req.endpoint = "chat_simple" /\ AugmentedStream /\ Ended /\ PipelineRaised)
    => /\ \E i \in 1..Len(out) : IsErrorObject(out[i])
       /\ ~(\E i \in 1..Len(out) : out[i].done = "true" /\ out[i].content = <<>>)

\* C10: a proxied request keeps the caller's stream flag: stream=true is
\* answered by a StreamingResponse relaying an upstream stream, never by
\* reading the whole upstream body as one JSON value; stream=false is
\* answered by one complete response.
C10_ProxyKeepsStreamFlag ==
    (Handled /\ route = "proxy")
    => IF req.stream
       THEN served = "stream" /\ upstream.method # "requests.post"
       ELSE served # "stream"

\* C11: a proxied stream relays exactly the chunks received from the one
\* upstream connection, in order; when the connection fails after k chunks
\* the caller gets those k chunks, then exactly one error chunk, and the
\* stream ends.
C11_RelayThenOneErrorChunk ==
    (Handled /\ route = "proxy" /\ served = "stream" /\ Ended)
    => /\ upstreamCalls = 1
       /\ gen.state = "returned"
       /\ Len(out) = upstream.objs + (IF upstream.fails THEN 1 ELSE 0)
       /\ \A k \in 1..upstream.objs : out[k] = raw_chunk(k)
       /\ upstream.fails => IsErrorObject(out[Len(out)])

\* C13: a proxied request makes exactly one upstream attempt and an augmented
\* request exactly one pipeline call, whatever the outcome of the attempt.
C13_ExactlyOneAttempt ==
    (Handled /\ Ended)
    => /\ route = "proxy" => upstreamCalls = 1 /\ pipelineCalls = 0
       /\ route = "rag" => pipelineCalls = 1 /\ upstreamCalls = 0

\* C12: a stream=false proxied request gets the upstream JSON body unchanged
\* when the upstream answers 200; for any other status and for a timeout, a
\* refused connection or an unparsable body it gets an error response built
\* by the gateway, and no exception escapes the handler.
C12_NonStreamProxyOutcome ==
    (Handled /\ Ended /\ route = "proxy" /\ ~req.stream /\ upstreamCalls = 1)
    => /\ served # "server_error"
       /\ IF upstream.kind = "http" /\ upstream.status = 200 /\ upstream.objs = 1
          THEN served = "json" /\ resp = UpstreamObject(upstream)
          ELSE served \in {"json", "http_error"} /\ IsErrorObject(resp)

\* the response the handler of the request being served gives when the
\* upstream fails in the other of the two ways (timeout / refused connection)
OtherFailure ==
    LET o == [kind |-> IF upstream.kind = "timeout" THEN "connection_error"
                       ELSE "timeout",
              status |-> 0, objs |-> 0, body |-> "none"]
    IN CASE req.endpoint = "chat_ollama" -> proxy_chat_to_ollama(req, o)
         [] req.endpoint = "generate_ollama" -> proxy_generate_to_ollama(req, o)
         [] req.endpoint = "chat_completions" ->
              HTTPExceptionBody(str(proxy_to_llm(req, o).exc))
         [] OTHER -> simple_proxy(req.model, o)

UpstreamUnavailable ==
    /\ Handled /\ Ended /\ route = "proxy" /\ served # "stream"
    /\ upstream.kind \in {"timeout", "connection_error"}

\* C14 (as stated): the response to a proxied request whose upstream timed
\* out is the response it gets when the connection is refused: same envelope
\* and same message text.
C14_FailuresIndistinguishable ==
    UpstreamUnavailable => resp = OtherFailure

\* C14 (amended): the two responses have the same envelope and the same HTTP
\* status class, but their message texts differ, so the client can tell a
\* timeout from a refused connection.
C14_FailuresDifferInMessage ==
    UpstreamUnavailable
    => /\ Shape(resp) = Shape(OtherFailure)
       /\ resp.done = OtherFailure.done
       /\ served = (IF req.endpoint = "chat_completions" THEN "http_error" ELSE "json")
       /\ <<resp.content, resp.error>> # <<OtherFailure.content, OtherFailure.error>>

C14_Witness ==
    /\ UpstreamUnavailable
    /\ req.endpoint = "chat_ollama" /\ upstream.kind = "timeout"
    /\ resp.content = <<"Error: ", "Request timeout">>
    /\ OtherFailure.content = <<"Error: ", "Connection error">>

PipelineFailure ==
    /\ Handled /\ Ended /\ route = "rag" /\ ~req.stream /\ PipelineRaised

\* the error of process_with_rag as the handlers' except clauses print it
PipelineFailureText == str(HTTPException(500, <<"RAG failed: ">> \o PipelineError))

HealthEndpoints ==
    {"ollama_api.health_check", "endpoints.get_health_status", "routes.health_check"}

\* the chat_handler global of the module a /health implementation lives in
HealthHandler ==
    CASE req.endpoint = "ollama_api.health_check" -> handlers["ollama_api"]
      [] req.endpoint = "endpoints.get_health_status" -> handlers["endpoints"]
      [] OTHER -> handlers["routes"]

\* C16: every /health implementation reports degraded while set_chat_handler
\* has not installed the handler of its module and healthy once it has,
\* whether or not the upstream can be reached.
C16_HealthFollowsHandler ==
    (req.endpoint \in HealthEndpoints /\ Ended)
    => /\ status = 200
       /\ resp.content = <<IF HealthHandler.installed THEN "healthy" ELSE "degraded">>

\* the descriptors listModels() and describe(name) are answered from
Descriptors ==
    [i \in 1..Len(model_service.models_config) |-> heap[model_service.models_config[i]]]

\* C17 (as stated): the registry holds the descriptors it was started with in
\* every reachable state, also after add_model, remove_model and after a
\* caller has changed the list get_available_models gave it.
C17_RegistryNeverChanges ==
    Descriptors = <<descriptor(RAG_MODEL_NAME, RAG_MODEL_NAME),
                    descriptor(LLM_MODEL_NAME, LLM_MODEL_NAME)>>

\* C17 (amended): the descriptors change only in a step of add_model, of
\* remove_model, or in which a caller assigns to a descriptor dict it was
\* given; a caller that appends to or pops from the list it was given leaves
\* them as they are, and so do the listing and describing requests.
C17_RegistryChangesOnlyByMutators ==
    [][(Descriptors' # Descriptors)
         => (add_model \/ remove_model \/ caller_mutates_descriptor)]_vars

\* the caller has emptied the list it was given and the registry is whole
C17_Witness ==
    /\ caller.listing.held /\ caller.listing.items = <<>>
    /\ Len(Descriptors) = 3
    /\ Descriptors[3] = descriptor("new-model", "new-model")
    /\ caller.seen = get_openai_models(model_service)

\* C18: while the pipeline generates for a request, the thread of the event
\* loop is not held by that generation, so the loop can run the coroutines
\* of other requests.
C18_GenerationOffTheLoop ==
    \A t \in TaskIds :
        (augmented(tasks[t].fn) /\ tasks[t].phase = "waiting") => thread # t

\* C19: every accepted request eventually completes or fails, even when the
\* pipeline or the upstream never answers.
C19_EveryRequestEnds ==
    \A t \in TaskIds : (tasks[t].phase # "none") ~> (tasks[t].phase = "done")

\* C20: in the step in which the disconnect of a stream's client is seen, and
\* in every later step, no chunk is produced for that request, and no
\* coroutine ends with the upstream session it opened still open.
C20_NoChunkAfterDisconnect ==
    [][\A t \in TaskIds :
          /\ tasks'[t].observed => tasks'[t].sent = tasks[t].sent
          /\ tasks'[t].phase = "done" => tasks'[t].session # "open"]_vars

\* a proxied stream was cut by a disconnect after chunks had been relayed
C20_Witness ==
    \E t \in TaskIds :
        /\ tasks[t].fn = "proxy_stream_to_llm"
        /\ tasks[t].observed /\ tasks[t].result = "cancelled"
        /\ tasks[t].sent = MaxChunks
        /\ tasks[t].session = "closed"

\* C21: handling a request leaves the shared state of the gateway as it is:
\* the chat_handler globals (with their rag_model_name and llm_server_url)
\* and the model registry change in no step of a chat, generate, listing,
\* describing or health request; the only step that changes them is the
\* start-up call set_chat_handler.
C21_RequestsLeaveSharedStateAlone ==
    [][(handlers' # handlers \/ heap' # heap \/ model_service' # model_service)
          => set_chat_handler]_vars

\* a chat request was answered after a describing request had been, and the
\* registry and the installed handlers are as start-up left them
C21_Witness ==
    /\ pc = "done" /\ Handled /\ status = 200
    /\ caller.seen = get_openwebui_model_by_name(model_service, RAG_MODEL_NAME)
    /\ caller.seen # <<>>
    /\ \A m \in Modules : handlers[m] = ChatHandler(RAG_MODEL_NAME, LLM_SERVER_URL)
    /\ heap = InitialHeap /\ model_service = ModelService

\* a stream=true request for the augmented model on /api/chat/completions
\* whose pipeline call did not raise has been streamed to its end
OpenAIStreamSucceeded ==
    /\ req.endpoint = "chat_completions" /\ route = "rag" /\ served = "stream"
    /\ Ended /\ PipelineReturned

\* C22: the lines of a successful OpenAI-style augmented stream are content
\* chunks (`data: <json>` with a non-empty delta.content and finish_reason
\* null), then one `data: <json>` chunk with an empty delta and finish_reason
\* "stop", then the line `data: [DONE]`, and nothing else; with an
\* incremental pipeline there is one content chunk per non-empty fragment,
\* in order, and none for an empty fragment.
C22_OpenAIStreamLines ==
    OpenAIStreamSucceeded =>
        LET n == Len(out) IN
        /\ n >= 2
        /\ out[n] = DONE_line
        /\ out[n - 1].framing = "sse" /\ out[n - 1].literal = ""
        /\ out[n - 1].finish_reason = "stop" /\ out[n - 1].content = <<>>
        /\ out[n - 1].field = "none"
        /\ \A i \in 1..(n - 2) :
              /\ out[i].framing = "sse" /\ out[i].literal = ""
              /\ out[i].field = "choices[0].delta.content"
              /\ out[i].content # <<>>
              /\ out[i].finish_reason = "null"
        /\ pipe.mode \in {"stream", "astream"} =>
              [i \in 1..(n - 2) |-> out[i].content]
                 = SelectSeq(pipe.frags, LAMBDA f : f # <<>>)

\* the pipeline produced an empty fragment between two non-empty ones
C22_Witness ==
    /\ OpenAIStreamSucceeded
    /\ pipe.mode = "stream"
    /\ Len(pipe.frags) = 3 /\ pipe.frags[2] = <<>>
    /\ pipe.frags[1] # <<>> /\ pipe.frags[3] # <<>>
    /\ Len(out) = 4

\* a stream=true request for the augmented model on /api/chat or
\* /api/generate (api/ollama_api.py) whose pipeline call did not raise has
\* been streamed to its end
OllamaStreamSucceeded ==
    /\ req.endpoint \in {"chat_ollama", "generate_ollama"}
    /\ route = "rag" /\ served = "stream"
    /\ Ended /\ PipelineReturned

\* C23 (as stated): in an Ollama-style augmented stream every fragment object
\* has done=false, and the one final object has done=true, empty content, and
\* usage counters equal to zero.
C23_FinalObjectHasZeroedUsage ==
    OllamaStreamSucceeded =>
        LET n == Len(out) IN
        /\ n >= 1
        /\ \A i \in 1..(n - 1) : out[i].done = "false"
        /\ out[n].done = "true" /\ out[n].content = <<>>
        /\ out[n].prompt_eval_count = 0
        /\ out[n].eval_count = 0

\* C23 (amended): every fragment object has done=false and non-empty
\* content; the one final object has done=true, empty content and the
\* timing and usage keys, its prompt_eval_count is the number of words of the
\* question (or prompt) and its eval_count the number of words of the answer.
C23_FinalObjectCountsWords ==
    OllamaStreamSucceeded =>
        LET n == Len(out) IN
        /\ n >= 1
        /\ \A i \in 1..(n - 1) : out[i].done = "false" /\ out[i].content # <<>>
        /\ out[n].done = "true" /\ out[n].content = <<>>
        /\ OllamaUsageKeys \subseteq out[n].keys
        /\ out[n].prompt_eval_count = Len(split(question))
        /\ out[n].eval_count = Len(split(AnswerOf(pipe)))

\* a chat stream of two fragments for an answer of three words
C23_Witness ==
    /\ OllamaStreamSucceeded /\ req.endpoint = "chat_ollama"
    /\ Len(out) = 3
    /\ out[3].eval_count = 3 /\ out[3].prompt_eval_count = 1

\* C24: on every endpoint that streams an augmented answer the source of
\* the stream is the first interface the pipeline exposes, in the order
\* stream, astream, invoke (with word segmentation), and that one source is
\* called once.
C24_SourceChosenByProbing ==
    (AugmentedStream /\ pipe.mode # "none")
        => /\ pipe.mode = probe(pipe.attrs)
           /\ pipelineCalls = 1

\* the registry holds an entry of that name in the augmented family
RegisteredAsAugmented(model) ==
    \E i \in DOMAIN Descriptors :
        /\ Descriptors[i].name = model
        /\ Descriptors[i].family = "rag-enhanced"

\* C25: whenever the router of api/routes.py classifies a chat request, it
\* routes the request to the augmented pipeline if and only if the registry
\* then holds an entry with exactly the request's model name in the augmented
\* family, whatever add_model and remove_model calls came before.
C25_RouterAgreesWithRegistry ==
    [][(chat_completions /\ route' \in {"rag", "proxy"})
          => (route' = "rag" <=> RegisteredAsAugmented(req'.model))]_vars

\* no two entries of the registry have the same name
NamesUnique ==
    \A i, j \in DOMAIN Descriptors :
        Descriptors[i].name = Descriptors[j].name => i = j

\* C26: add_model and remove_model keep the names of the registry unique: a
\* call made when no two entries share a name leaves no two entries sharing
\* a name (and an add_model of an id already present changes nothing).
C26_NamesStayUnique ==
    [][((add_model \/ remove_model) /\ NamesUnique) => NamesUnique']_vars

\* the endpoints that need the chat handler
GuardedEndpoints == ChatEndpoints \cup {"test_retrieval"}

OllamaAugmentedStream ==
    /\ req.endpoint \in {"chat_ollama", "generate_ollama"}
    /\ route = "rag" /\ served = "stream"

\* C28: in an Ollama-style augmented stream nothing is emitted before the
\* one call of the pipeline (rag_chain.invoke) has ended, the pipeline is
\* called at most once, and when that call raised the stream is exactly one
\* object, the error object with done=true.
C28_PipelineEndsBeforeFirstChunk ==
    OllamaAugmentedStream =>
        /\ pipelineCalls <= 1
        /\ (out # <<>> \/ Ended) => (pipelineCalls = 1 /\ pipe.mode = "invoke")
        /\ PipelineRaised =>
              /\ Len(out) <= 1
              /\ \A i \in 1..Len(out) :
                    /\ IsErrorObject(out[i]) /\ out[i].done = "true"
                    /\ out[i].error = <<>> => out[i].content = <<"Error: ">> \o str(process_with_rag(pipe).exc)
              /\ Ended => Len(out) = 1

\* a chat stream has ended with the error object as its only object
C28_Witness ==
    /\ OllamaAugmentedStream /\ req.endpoint = "chat_ollama"
    /\ Ended /\ PipelineRaised
    /\ Len(out) = 1 /\ out[1].done = "true"

\* C29: with API-key checking switched on, a request whose Authorization
\* header carries a bearer key that is not in valid_api_keys is not granted
\* the write permission, and is granted nothing that a request without an
\* Authorization header is not granted, whatever keys were added or removed
\* before.
C29_UnknownKeyGetsNoWrite ==
    [][(/\ get_current_user
        /\ auth_service.api_key_enabled
        /\ current_user'.authorization # <<>>
        /\ current_user'.authorization[1] = "Bearer "
        /\ current_user'.authorization[2] \notin DOMAIN auth_service.valid_api_keys)
          => LET granted == Permissions(current_user'.result)
                 anonymous == Permissions(verify_api_key(auth_service, <<>>))
             IN "write" \notin granted /\ granted \subseteq anonymous]_vars

\* the rows of rag_contexts that reference a conversation
ContextsOf(tables, id) ==
    {k \in 1..Len(tables.rag_contexts) : tables.rag_contexts[k].conversation_id = id}

\* the rows of rag_conversations of a session
ConversationsOf(tables, session_id) ==
    {k \in 1..Len(tables.rag_conversations) :
        tables.rag_conversations[k].session_id = session_id}

\* what the three tables say about each other
StoreConsistent(tables) ==
    /\ \A k \in 1..Len(tables.rag_conversations) :
        LET row == tables.rag_conversations[k]
            refs == ContextsOf(tables, row.id)
        IN /\ Cardinality(refs) = row.contexts_count
           /\ {tables.rag_contexts[j].context_order : j \in refs}
                = 0..(row.contexts_count - 1)
    /\ \A r \in tables.user_sessions :
        r.total_questions = Cardinality(ConversationsOf(tables, r.session_id))
    /\ \A sid \in Sessions :
        ConversationsOf(tables, sid) # {}
          => \E r \in tables.user_sessions : r.session_id = sid

\* C30: after any sequence of save_conversation calls, successful or failing
\* part-way, every rag_conversations row has contexts_count equal to the number
\* of rag_contexts rows that reference it, with context_order 0..contexts_count-1,
\* every session's total_questions is the number of its rag_conversations rows,
\* and only a commit changes the tables: a save_conversation that raises
\* before its commit leaves all three unchanged.
C30_StoreStaysConsistent ==
    [][/\ StoreConsistent(db')
       /\ save_conversation_raises => db' = db
       /\ db' # db => commit]_vars

\* a save that raised after writing two rows or more, while the tables hold
\* a conversation with MaxContexts contexts and a session asked twice
C30_Witness ==
    /\ \E c \in Calls : saves[c].pc = "raised" /\ saves[c].rolled_back >= 2
    /\ \E k \in 1..Len(db.rag_conversations) :
          db.rag_conversations[k].contexts_count = MaxContexts
    /\ \E r \in db.user_sessions : r.total_questions >= 2

====
